---- MODULE Spec2Model ----
(***************************************************************************)
(* A model of the Wander interpreter (almibe/wander-rs): the Bindings      *)
(* environment, the translation of parsed Elements into Expressions and    *)
(* the tree-walking evaluator, driven by runs of scripts against one       *)
(* persistent Bindings, as the REPL does.                                  *)
(*                                                                         *)
(* Elements, Expressions and Values are records with a "tag" field.  A     *)
(* Rust Result is a record [kind, val, env] with kind "Ok", "Err" or       *)
(* "Panic" (unwrap on None, todo!(), panic!()); env is the environment     *)
(* the evaluation leaves behind.                                           *)
(***************************************************************************)
EXTENDS Integers, Sequences, FiniteSets, TLC

VARIABLES
    bindings,   \* the Bindings the scripts run against: [scopes, host_functions]
    before,     \* the Bindings as they were when the last run started
    script,     \* the Element handed to the last run (Nothing before any run)
    result,     \* [kind, val] of the last run
    calls,      \* the host function runs of the last run: <<[name, args]>>
    evals,      \* the Expressions the last run passed to eval, in order
    runs,       \* number of runs made
    aborted,    \* TRUE once the process is gone: a panic, or the REPL's loop ended
    ops,        \* the calls the host made on the Bindings, in order
    source,     \* the text or tokens handed to the last run; the command that ended the REPL
    stages      \* the stages of the pipeline the last run executed, in order

vars == <<bindings, before, script, result, calls, evals, runs, aborted, ops, source, stages>>

-----------------------------------------------------------------------------
(* Bounds of the model. *)

MaxRuns == 1

\* the longest string literal of a script, in characters between the quotes
MaxStrLen == 2

\* the longest grouping given to translate, in terms and forward markers
MaxTerms == 5

\* the most calls the host makes on a Bindings before it runs a script
MaxOps == 4
\* the longest script of the enumerated texts
MaxScriptLen == 4
\* the most elements of a collection literal
MaxItems == 3
\* the most collections a sample script holds, and the most entries of one
MaxNested == 2

-----------------------------------------------------------------------------
(* Option<T>. *)

Some(v) == [some |-> TRUE, v |-> v]
None == [some |-> FALSE]

\* a WanderType, where a lambda holds one for the tag of its parameter
Type(name) == [type |-> name]

(* Elements (parser.rs) and Expressions (interpreter.rs). *)

BooleanE(b) == [tag |-> "Boolean", b |-> b]
IntE(n) == [tag |-> "Int", n |-> n]
StringE(s) == [tag |-> "String", s |-> s]
NameE(name) == [tag |-> "Name", name |-> name]
HostFunctionE(name) == [tag |-> "HostFunction", name |-> name]
NothingE == [tag |-> "Nothing"]
ForwardE == [tag |-> "Forward"]
Decl(name, body) == [name |-> name, tag |-> None, body |-> body]
LetE(decls, body) == [tag |-> "Let", decls |-> decls, body |-> body]
GroupingE(elems) == [tag |-> "Grouping", elems |-> elems]
ApplicationX(elems) == [tag |-> "Application", elems |-> elems]
ConditionalE(c, t, e) == [tag |-> "Conditional", c |-> c, t |-> t, e |-> e]
LambdaE(p, i, o, body) == [tag |-> "Lambda", p |-> p, i |-> i, o |-> o, body |-> body]
TupleE(elems) == [tag |-> "Tuple", elems |-> elems]
ListE(elems) == [tag |-> "List", elems |-> elems]
RecordE(fields) == [tag |-> "Record", fields |-> fields]
\* a HashSet of elements: a set, equal to every HashSet of the same members
SetE(members) == [tag |-> "Set", members |-> members]

(* Values (WanderValue, as interpreter.rs names its variants). *)

BoolV(b) == [tag |-> "Bool", b |-> b]
IntV(n) == [tag |-> "Int", n |-> n]
StringV(s) == [tag |-> "String", s |-> s]
NothingV == [tag |-> "Nothing"]
LambdaV(p, i, o, body) == [tag |-> "Lambda", p |-> p, i |-> i, o |-> o, body |-> body]
ListV(elems) == [tag |-> "List", elems |-> elems]
TupleV(elems) == [tag |-> "Tuple", elems |-> elems]
RecordV(fields) == [tag |-> "Record", fields |-> fields]
HostValueV(hv) == [tag |-> "HostValue", hv |-> hv]
\* a HashSet of values
SetV(members) == [tag |-> "Set", members |-> members]

(* Result<T, WanderError>, and a panic, with the environment left behind. *)

WanderError(msg) == [tag |-> "Error", msg |-> msg]
Ok(v, env) == [kind |-> "Ok", val |-> v, env |-> env]
Err(msg, env) == [kind |-> "Err", val |-> WanderError(msg), env |-> env]
Panic(msg, env) == [kind |-> "Panic", val |-> [tag |-> "Panic", msg |-> msg], env |-> env]

(* The error messages of the evaluator, without their interpolated parts. *)

MsgLookup == "Error looking up"
MsgReadField == "Could not read field"
MsgAccessField == "Could not access field"
MsgInvalidCall == "Invalid function call"
MsgExpectedLambda == "Invalid function call, was expecting a lambda"
MsgCondBool == "Conditionals require a bool value"
MsgCouldNotRead == "Could not read"
MsgPipe == "Cannot process pipe, Should never reach."

Front(s) == SubSeq(s, 1, Len(s) - 1)
Last(s) == s[Len(s)]
Reverse(s) == [i \in 1..Len(s) |-> s[Len(s) + 1 - i]]

-----------------------------------------------------------------------------
(* Bindings (bindings.rs).  A scope is a function from names to Values.   *)

EmptyScope == << >>

new == [scopes |-> <<EmptyScope>>, host_functions |-> << >>, token_transformers |-> << >>]

add_scope(b) == [b EXCEPT !.scopes = Append(@, EmptyScope)]

remove_scope(b) == [b EXCEPT !.scopes = IF Len(@) = 0 THEN @ ELSE Front(@)]

\* a variant that answers from the outermost scope that has the name
read_from_outermost(scopes, index, name) ==
    LET having == {i \in 1..index : name \in DOMAIN scopes[i]}
    IN  IF having = {} THEN None
        ELSE Some(scopes[CHOOSE i \in having : \A j \in having : i <= j][name])

RECURSIVE read_from(_, _, _)
read_from(scopes, index, name) ==
    IF index > 0
    THEN IF name \in DOMAIN scopes[index]
         THEN Some(scopes[index][name])
         ELSE read_from(scopes, index - 1, name)
    ELSE None

read(b, name) == read_from(b.scopes, Len(b.scopes), name)

insert(scope, name, value) ==
    [n \in (DOMAIN scope) \cup {name} |-> IF n = name THEN value ELSE scope[n]]

\* bind pops the current scope with unwrap: it panics when there is none.
bind_aborts(b) == Len(b.scopes) = 0

\* the Bindings after bind: a pop that found no scope changed nothing
\* before its unwrap panicked
bind(b, name, value) ==
    IF bind_aborts(b) THEN b
    ELSE [b EXCEPT !.scopes = Append(Front(@), insert(Last(@), name, value))]

read_host_function(b, name) ==
    IF name \in DOMAIN b.host_functions THEN Some(b.host_functions[name]) ELSE None


\* bind_host_function unwraps the lambda chain it built: None when the
\* function declares no parameter.
RECURSIVE host_lambda(_, _, _)
host_lambda(full_name, p, k) ==
    \* the chain for parameters k..Len(p), built from the last one outwards
    IF k = Len(p)
    THEN LambdaV(p[k].name, Type(p[k].type), Type("Any"), HostFunctionE(full_name))
    ELSE LET inner == host_lambda(full_name, p, k + 1)
         IN  LambdaV(p[k].name, Type(p[k].type), Type("Any"),
                     LambdaE(inner.p, inner.i, inner.o, inner.body))

register(b, function) ==
    [b EXCEPT !.host_functions =
        [n \in (DOMAIN @) \cup {function.name} |->
            IF n = function.name THEN function ELSE @[n]]]

bind_host_function_aborts(b, function) ==
    Len(function.parameters) = 0 \/ bind_aborts(b)

\* the Bindings after bind_host_function: the function is registered
\* first, so it stays registered when the unwrap of the chain or the bind
\* panics afterwards
bind_host_function(b, function) ==
    IF Len(function.parameters) = 0 THEN register(b, function)
    ELSE bind(register(b, function), function.name,
              host_lambda(function.name, function.parameters, 1))

\* bind_token_transformer: the transformer is kept under module.name
bind_token_transformer(b, module, name, transformer) ==
    [b EXCEPT !.token_transformers =
        insert(@, module \o <<".">> \o name, transformer)]

read_token_transformer(b, name) ==
    IF name \in DOMAIN b.token_transformers
    THEN Some(b.token_transformers[name]) ELSE None

-----------------------------------------------------------------------------
(* Host functions of the common prelude (preludes.rs).  The binding of a   *)
(* host function names its parameters (HostFunctionBinding.parameters);    *)
(* the names are those the function's run gives its arguments.             *)

Param(name, type) == [name |-> name, type |-> type]

CoreEq == <<"C", "o", "r", "e", ".", "e", "q">>
AssertAssertEq == <<"A", "s", "s", "e", "r", "t", ".", "a", "s", "s", "e", "r", "t", "E", "q">>
BoolAnd == <<"B", "o", "o", "l", ".", "a", "n", "d">>
BoolNot == <<"B", "o", "o", "l", ".", "n", "o", "t">>
StatementEntity == <<"S", "t", "a", "t", "e", "m", "e", "n", "t", ".", "e", "n", "t", "i", "t", "y">>
StatementAttribute == <<"S", "t", "a", "t", "e", "m", "e", "n", "t", ".", "a", "t", "t", "r", "i", "b", "u", "t", "e">>
StatementValue == <<"S", "t", "a", "t", "e", "m", "e", "n", "t", ".", "v", "a", "l", "u", "e">>
ListAt == <<"L", "i", "s", "t", ".", "a", "t">>

PLeft == <<"l", "e", "f", "t">>
PRight == <<"r", "i", "g", "h", "t">>
PValue == <<"v", "a", "l", "u", "e">>
PIndex == <<"i", "n", "d", "e", "x">>

EqFunction ==
    [name |-> CoreEq,
     parameters |-> <<Param(PLeft, "Any"), Param(PRight, "Any")>>,
     result |-> "Any"]

AssertEqFunction ==
    [name |-> AssertAssertEq,
     parameters |-> <<Param(PLeft, "Any"), Param(PRight, "Any")>>,
     result |-> "Nothing"]

AndFunction ==
    [name |-> BoolAnd,
     parameters |-> <<Param(PLeft, "Boolean"), Param(PRight, "Boolean")>>,
     result |-> "Boolean"]

NotFunction ==
    [name |-> BoolNot,
     parameters |-> <<Param(PValue, "Boolean")>>,
     result |-> "Boolean"]

EntityFunction ==
    [name |-> StatementEntity, parameters |-> <<Param(PValue, "Tuple")>>,
     result |-> "Identifier"]

AttributeFunction ==
    [name |-> StatementAttribute, parameters |-> <<Param(PValue, "Tuple")>>,
     result |-> "Identifier"]

ValueFunction ==
    [name |-> StatementValue, parameters |-> <<Param(PValue, "Tuple")>>,
     result |-> "Value"]

AtFunction ==
    [name |-> ListAt,
     parameters |-> <<Param(PIndex, "Int"), Param(PValue, "List")>>,
     result |-> "Any"]

HelloText == <<"h", "e", "l", "l", "o", "!">>
\* SayHello of tests/host_value_tests.rs: no parameter, answers a HostValue
Hello == <<"h", "e", "l", "l", "o">>
HelloFunction == [name |-> Hello, parameters |-> << >>, result |-> "String"]
\* host functions that answer the same HostValue and declare one and two
\* parameters
HelloTo == <<"h", "e", "l", "l", "o", "1">>
HelloBoth == <<"h", "e", "l", "l", "o", "2">>
HelloToFunction ==
    [name |-> HelloTo, parameters |-> <<Param(<<"w", "h", "o">>, "Any")>>,
     result |-> "String"]
HelloBothFunction ==
    [name |-> HelloBoth,
     parameters |-> <<Param(<<"w", "h", "o">>, "Any"), Param(<<"a", "l", "s", "o">>, "Any")>>,
     result |-> "String"]

\* HostFunction::run of the function registered as `name`.
host_run(name, arguments, env) ==
    CASE name = CoreEq ->
            IF Len(arguments) = 2
            THEN Ok(BoolV(arguments[1] = arguments[2]), env)
            ELSE Err("eq function requires two parameters.", env)
      [] name = AssertAssertEq ->
            IF Len(arguments) = 2
            THEN IF arguments[1] = arguments[2]
                 THEN Ok(NothingV, env)
                 ELSE Err("Assertion failed!", env)
            ELSE Err("assertEq function requires two parameters.", env)
      [] name = BoolAnd ->
            IF Len(arguments) = 2 /\ arguments[1].tag = "Bool" /\ arguments[2].tag = "Bool"
            THEN Ok(BoolV(arguments[1].b /\ arguments[2].b), env)
            ELSE Err("and function requires two boolean parameters.", env)
      [] name = BoolNot ->
            IF Len(arguments) = 1 /\ arguments[1].tag = "Bool"
            THEN Ok(BoolV(~arguments[1].b), env)
            ELSE Err("not function requires one boolean parameter.", env)
      [] name = StatementEntity ->
            IF Len(arguments) = 1 /\ arguments[1].tag = "Tuple" /\ Len(arguments[1].elems) = 3
            THEN Ok(arguments[1].elems[1], env)
            ELSE Err("entity function requires one Statement parameter.", env)
      [] name = StatementAttribute ->
            IF Len(arguments) = 1 /\ arguments[1].tag = "List" /\ Len(arguments[1].elems) = 3
            THEN Ok(arguments[1].elems[2], env)
            ELSE Err("attribute function requires one Statement parameter.", env)
      [] name = StatementValue ->
            IF Len(arguments) = 1 /\ arguments[1].tag = "List" /\ Len(arguments[1].elems) = 3
            THEN Ok(arguments[1].elems[3], env)
            ELSE Err("value function requires one Statement parameter.", env)
      [] name = ListAt ->
            IF Len(arguments) = 2 /\ arguments[1].tag = "Int" /\ arguments[2].tag = "List"
            THEN IF arguments[1].n < 0
                 THEN Panic("try_into().unwrap()", env)
                 ELSE IF arguments[1].n < Len(arguments[2].elems)
                 THEN Ok(arguments[2].elems[arguments[1].n + 1], env)
                 ELSE Err("at function err.", env)
            ELSE Err("at function err.", env)
      [] name \in {Hello, HelloTo, HelloBoth} -> Ok(HostValueV(HelloText), env)
      [] OTHER -> Err("unknown host function", env)

\* the host functions of common, in the order it binds them
CommonFunctions ==
    <<EqFunction, AssertEqFunction, AndFunction, NotFunction,
      EntityFunction, AttributeFunction, ValueFunction, AtFunction>>

RECURSIVE bind_all(_, _, _)
bind_all(b, functions, k) ==
    IF k > Len(functions) THEN b
    ELSE bind_all(bind_host_function(b, functions[k]), functions, k + 1)

common == bind_all(new, CommonFunctions, 1)

-----------------------------------------------------------------------------
(* The parser (parser.rs): tokens -> Element.  A Token is a record with a  *)
(* tag, and the value of a literal or a name.  A Gaze is the tokens and    *)
(* an offset; a parser answers Some(element) with the Gaze after it, None  *)
(* with the Gaze where it stopped, or it panics.  parser.rs calls every    *)
(* parser through Gaze::attemptf and goes on with the Gaze attemptf        *)
(* leaves.  Gaze is the cursor of the gaze crate, which is not among the   *)
(* sources: from_vec, is_complete, peek, advance (next), restore and       *)
(* attemptf follow the specification of the parsing engine (spec 4.3 and   *)
(* 9: a position-indexed cursor over the tokens that is put back to the    *)
(* position of the attempt when the attempt does not match).               *)

Tok(tag) == [tag |-> tag]
BooleanT(b) == [tag |-> "Boolean", b |-> b]
IntT(n) == [tag |-> "Int", n |-> n]
StringT(s) == [tag |-> "String", s |-> s]
NameT(name) == [tag |-> "Name", name |-> name]

from_vec(tokens) == [content |-> tokens, offset |-> 0]
is_complete(gaze) == gaze.offset >= Len(gaze.content)
peek(gaze) == IF is_complete(gaze) THEN Tok("None") ELSE gaze.content[gaze.offset + 1]
\* the Gaze after next()
advance(gaze) == IF is_complete(gaze) THEN gaze ELSE [gaze EXCEPT !.offset = @ + 1]

PSome(v, gaze) == [st |-> "Some", v |-> v, gaze |-> gaze]
\* None, with the Gaze where the parser stopped: every next() moved it, also
\* the one whose token did not match
PNone(gaze) == [st |-> "None", gaze |-> gaze]
PPanic(msg) == [st |-> "Panic", msg |-> msg]

boolean(gaze) ==
    IF peek(gaze).tag = "Boolean"
    THEN PSome(BooleanE(peek(gaze).b), advance(gaze)) ELSE PNone(advance(gaze))

int(gaze) ==
    IF peek(gaze).tag = "Int" THEN PSome(IntE(peek(gaze).n), advance(gaze))
    ELSE PNone(advance(gaze))

string_parser(gaze) ==
    IF peek(gaze).tag = "String"
    THEN PSome(StringE(peek(gaze).s), advance(gaze)) ELSE PNone(advance(gaze))

nothing(gaze) ==
    IF peek(gaze).tag \in {"Nothing", "QuestionMark"}
    THEN PSome(NothingE, advance(gaze)) ELSE PNone(advance(gaze))

pipe(gaze) ==
    IF peek(gaze).tag = "Pipe" THEN PSome(ForwardE, advance(gaze))
    ELSE PNone(advance(gaze))

name_parser(gaze) ==
    IF peek(gaze).tag = "Name"
    THEN PSome(NameE(peek(gaze).name), advance(gaze)) ELSE PNone(advance(gaze))

\* parser(gaze): the answer of the named parser on the Gaze
RECURSIVE apply_parser(_, _)

\* gaze.attemptf(&mut parser): the answer of the parser, and on None the Gaze
\* is put back where it was when the parser was attempted
RECURSIVE attemptf(_, _)

\* the loop of element_inner and element with parser(gaze) called directly:
\* the next parser starts where the one before it stopped
RECURSIVE first_some_direct(_, _)
first_some_direct(parsers, gaze) ==
    IF parsers = << >> THEN PNone(gaze)
    ELSE LET answer == apply_parser(Head(parsers), gaze)
         IN  IF answer.st # "None" THEN answer
             ELSE first_some_direct(Tail(parsers), answer.gaze)

\* for parser in parsers { if let Some(e) = gaze.attemptf(parser) { return
\* Some(e) } } None: the answer of the first of the parsers that does not
\* answer None; attemptf leaves the Gaze where it was after a None, so
\* every parser of the list starts at gaze
first_some(parsers, gaze) ==
    LET answers == [i \in DOMAIN parsers |-> attemptf(parsers[i], gaze)]
        some == {i \in DOMAIN parsers : answers[i].st # "None"}
    IN  IF some = {} THEN PNone(gaze)
        ELSE answers[CHOOSE i \in some : \A j \in some : i <= j]

\* while let Some(e) = gaze.attemptf(&mut element_inner) { contents.push(e) }
RECURSIVE inner_loop(_, _)
inner_loop(gaze, contents) ==
    LET e == attemptf("element_inner", gaze)
    IN  IF e.st = "Some" THEN inner_loop(e.gaze, Append(contents, e.v))
        ELSE IF e.st = "Panic" THEN e
        ELSE PSome(contents, e.gaze)

\* the same loop, then the closing token
closed_by(gaze, close) ==
    LET c == inner_loop(gaze, << >>)
    IN  IF c.st = "Panic" THEN c
        ELSE IF peek(c.gaze).tag = close THEN PSome(c.v, advance(c.gaze))
        ELSE PNone(advance(c.gaze))

RECURSIVE decls_loop(_, _)
decls_loop(gaze, decls) ==
    LET d == attemptf("val_binding", gaze)
    IN  IF d.st = "Some" THEN decls_loop(d.gaze, Append(decls, d.v))
        ELSE IF d.st = "Panic" THEN d
        ELSE PSome(decls, d.gaze)

\* let_scope with the in demanded: no match without it
let_scope_in_required(gaze) ==
    IF peek(gaze).tag # "Let" THEN PNone(advance(gaze))
    ELSE LET d == decls_loop(advance(gaze), << >>)
         IN  IF d.st = "Panic" THEN d
             ELSE IF peek(d.gaze).tag = "In"
             THEN LET b == attemptf("element", advance(d.gaze))
                      body == IF b.st = "Some" THEN b.v ELSE NothingE
                  IN  IF b.st = "Panic" THEN b
                      ELSE IF peek(b.gaze).tag = "End"
                      THEN PSome(LetE(d.v, body), advance(b.gaze))
                      ELSE PNone(advance(b.gaze))
             ELSE PNone(advance(d.gaze))

let_scope(gaze) ==
    IF peek(gaze).tag # "Let" THEN PNone(advance(gaze))
    ELSE LET d == decls_loop(advance(gaze), << >>)
         IN  IF d.st = "Panic" THEN d
             ELSE IF peek(d.gaze).tag = "In"
             THEN LET b == attemptf("element", advance(d.gaze))
                      body == IF b.st = "Some" THEN b.v ELSE NothingE
                      rest == b.gaze
                  IN  IF b.st = "Panic" THEN b
                      ELSE IF peek(rest).tag = "End"
                      THEN PSome(LetE(d.v, body), advance(rest))
                      ELSE PNone(advance(rest))
             ELSE PSome(LetE(d.v, NothingE), advance(d.gaze))

grouping(gaze) ==
    LET c == inner_loop(gaze, << >>)
    IN  IF c.st = "Panic" THEN c
        ELSE IF c.v = << >> THEN PNone(c.gaze)
        ELSE PSome(GroupingE(c.v), c.gaze)

grouped_application(gaze) ==
    IF peek(gaze).tag # "OpenParen" THEN PNone(advance(gaze))
    ELSE LET c == closed_by(advance(gaze), "CloseParen")
         IN  IF c.st = "Some" THEN PSome(GroupingE(c.v), c.gaze) ELSE c

conditional(gaze) ==
    IF peek(gaze).tag # "If" THEN PNone(advance(gaze))
    ELSE LET cond == attemptf("element", advance(gaze))
         IN  IF cond.st # "Some" THEN cond
             ELSE IF peek(cond.gaze).tag # "Then" THEN PNone(advance(cond.gaze))
             ELSE LET ife == attemptf("element", advance(cond.gaze))
                  IN  IF ife.st # "Some" THEN ife
                      ELSE IF peek(ife.gaze).tag # "Else"
                      THEN PNone(advance(ife.gaze))
                      ELSE LET elsee == attemptf("element", advance(ife.gaze))
                           IN  IF elsee.st # "Some" THEN elsee
                               ELSE IF peek(elsee.gaze).tag # "End"
                               THEN PNone(advance(elsee.gaze))
                               ELSE PSome(ConditionalE(cond.v, ife.v, elsee.v),
                                          advance(elsee.gaze))

\* while let Some(Element::Name(name)) = gaze.attemptf(&mut name) { ... }
RECURSIVE params_loop(_, _)
params_loop(gaze, params) ==
    LET param == attemptf("name", gaze)
        g1 == param.gaze
    IN  IF param.st # "Some" THEN PSome(params, g1)
        ELSE IF peek(g1).tag = "Colon"
        THEN IF peek(advance(g1)).tag = "Name"
             THEN params_loop(advance(advance(g1)),
                              Append(params, [name |-> param.v.name,
                                              tag |-> Some(peek(advance(g1)).name)]))
             ELSE PNone(advance(advance(g1)))
        ELSE params_loop(g1, Append(params, [name |-> param.v.name, tag |-> None]))

\* the loop over the reversed parameters: the last parameter takes the
\* body, each earlier one the lambda built so far
RECURSIVE final_lambda_loop(_, _, _, _)
final_lambda_loop(params, idx, body, final_lambda) ==
    IF idx > Len(params) THEN final_lambda
    ELSE final_lambda_loop(params, idx + 1, body,
            Some(LambdaE(params[idx].name, params[idx].tag, None,
                         IF final_lambda.some THEN final_lambda.v ELSE body)))

lambda_parser(gaze) ==
    IF peek(gaze).tag # "Lambda" THEN PNone(advance(gaze))
    ELSE LET params == params_loop(advance(gaze), << >>)
         IN  IF params.st = "None" THEN params
             ELSE IF peek(params.gaze).tag # "Arrow"
             THEN PNone(advance(params.gaze))
             ELSE LET body == attemptf("element", advance(params.gaze))
                      final_lambda == final_lambda_loop(Reverse(params.v), 1, body.v, None)
                  IN  IF body.st # "Some" THEN body
                      ELSE IF ~final_lambda.some THEN PPanic("final_lambda.unwrap()")
                      ELSE PSome(final_lambda.v, body.gaze)

list(gaze) ==
    IF peek(gaze).tag # "OpenSquare" THEN PNone(advance(gaze))
    ELSE LET c == closed_by(advance(gaze), "CloseSquare")
         IN  IF c.st = "Some" THEN PSome(ListE(c.v), c.gaze) ELSE c

RECURSIVE fields_loop(_, _)
fields_loop(gaze, contents) ==
    LET field == attemptf("name", gaze)
        g1 == field.gaze
    IN  IF field.st # "Some"
        THEN IF peek(g1).tag = "CloseBrace"
             THEN PSome(RecordE(contents), advance(g1)) ELSE PNone(advance(g1))
        ELSE IF peek(g1).tag # "EqualSign"
        THEN PNone(advance(g1))
        ELSE LET value == attemptf("element_inner", advance(g1))
             IN  IF value.st = "Panic" THEN value
                 ELSE IF value.st = "Some"
                 THEN fields_loop(value.gaze, insert(contents, field.v.name, value.v))
                 ELSE fields_loop(value.gaze, contents)

record(gaze) ==
    IF peek(gaze).tag # "OpenBrace" THEN PNone(advance(gaze))
    ELSE fields_loop(advance(gaze), << >>)

\* HashSet::insert of each element: an element equal to one already there
\* is not added, and two HashSets are equal when their members are
distinct(contents) == {contents[i] : i \in DOMAIN contents}

set(gaze) ==
    IF peek(gaze).tag # "Hash" THEN PNone(advance(gaze))
    ELSE IF peek(advance(gaze)).tag # "OpenParen" THEN PNone(advance(advance(gaze)))
    ELSE LET c == closed_by(advance(advance(gaze)), "CloseParen")
         IN  IF c.st = "Some"
             THEN PSome(SetE(distinct(c.v)), c.gaze)
             ELSE c

tuple(gaze) ==
    IF peek(gaze).tag # "SingleQuote" THEN PNone(advance(gaze))
    ELSE IF peek(advance(gaze)).tag # "OpenParen" THEN PNone(advance(advance(gaze)))
    ELSE LET c == closed_by(advance(advance(gaze)), "CloseParen")
         IN  IF c.st = "Some" THEN PSome(TupleE(c.v), c.gaze) ELSE c

val_binding(gaze) ==
    IF peek(gaze).tag # "Val" \/ peek(advance(gaze)).tag # "Name"
    THEN PNone(advance(advance(gaze)))
    ELSE LET g2 == advance(advance(gaze))
             tagged == peek(g2).tag = "Colon"
             g4 == IF tagged THEN advance(advance(g2)) ELSE g2
         IN  IF tagged /\ peek(advance(g2)).tag # "Name" THEN PNone(advance(advance(g2)))
             ELSE IF peek(g4).tag # "EqualSign" THEN PNone(advance(g4))
             ELSE LET body == attemptf("element", advance(g4))
                  IN  IF body.st # "Some" THEN body
                      ELSE PSome([name |-> peek(advance(gaze)).name,
                                  tag |-> IF tagged THEN Some(peek(advance(g2)).name)
                                          ELSE None,
                                  body |-> body.v],
                                 body.gaze)

\* while !gaze.is_complete() { results.push(gaze.attemptf(&mut element)?) }
RECURSIVE elements_loop(_, _)
elements_loop(gaze, results) ==
    IF is_complete(gaze) THEN PSome(results, gaze)
    ELSE LET e == attemptf("element", gaze)
         IN  IF e.st = "Some" THEN elements_loop(e.gaze, Append(results, e.v))
             ELSE e

elements_parser(gaze) == elements_loop(gaze, << >>)

\* the parsers of element_inner and of element, in the order they are tried
InnerParsers ==
    <<"tuple", "set", "record", "name", "boolean", "nothing", "int", "string",
      "let_scope", "grouped_application", "conditional", "lambda", "list">>

ElementParsers == <<"pipe", "let_scope", "grouping", "grouped_application", "conditional">>

element_inner(gaze) == first_some(InnerParsers, gaze)

element_parser(gaze) == first_some(ElementParsers, gaze)

apply_parser(parser, gaze) ==
    CASE parser = "elements" -> elements_parser(gaze)
      [] parser = "element" -> element_parser(gaze)
      [] parser = "element_inner" -> element_inner(gaze)
      [] parser = "val_binding" -> val_binding(gaze)
      [] parser = "tuple" -> tuple(gaze)
      [] parser = "set" -> set(gaze)
      [] parser = "record" -> record(gaze)
      [] parser = "name" -> name_parser(gaze)
      [] parser = "boolean" -> boolean(gaze)
      [] parser = "nothing" -> nothing(gaze)
      [] parser = "int" -> int(gaze)
      [] parser = "string" -> string_parser(gaze)
      [] parser = "pipe" -> pipe(gaze)
      [] parser = "let_scope" -> let_scope(gaze)
      [] parser = "grouping" -> grouping(gaze)
      [] parser = "grouped_application" -> grouped_application(gaze)
      [] parser = "conditional" -> conditional(gaze)
      [] parser = "lambda" -> lambda_parser(gaze)
      [] parser = "list" -> list(gaze)

\* the cursor after an attempt: where the parser left it when it answered
\* Some, where the attempt began when it answered None
restore(answer, gaze) == IF answer.st = "None" THEN PNone(gaze) ELSE answer

attemptf(parser, gaze) == restore(apply_parser(parser, gaze), gaze)

MsgParse == "Error parsing"

\* what parse makes of the answer of elements: [kind, val] with Ok(Element),
\* Err or Panic
parse_result(values) ==
    IF values.st = "Some"
    THEN IF Len(values.v) = 1 THEN [kind |-> "Ok", val |-> values.v[1]]
         ELSE [kind |-> "Ok", val |-> GroupingE(values.v)]
    ELSE IF values.st = "Panic"
    THEN [kind |-> "Panic", val |-> [tag |-> "Panic", msg |-> values.msg]]
    ELSE [kind |-> "Err", val |-> WanderError(MsgParse)]

parse(tokens) == parse_result(attemptf("elements", from_vec(tokens)))

-----------------------------------------------------------------------------
(* Translation (translation.rs): Element -> Expression.  The result is     *)
(* [kind, val] with kind "Ok", "Err" or "Panic" (an unwrap of an Err).     *)

XOk(e) == [kind |-> "Ok", val |-> e]
XErr(msg) == [kind |-> "Err", val |-> WanderError(msg)]
XPanic(msg) == [kind |-> "Panic", val |-> [tag |-> "Panic", msg |-> msg]]

\* a variant that appends the moved terms one by one
push_moved_flat(results, to_move) == results \o to_move

\* push of the moved terms: one term as it is, several as one Grouping
push_moved(results, to_move) ==
    IF Len(to_move) = 1
    THEN Append(results, to_move[1])
    ELSE Append(results, GroupingE(to_move))

RECURSIVE forwards_loop(_, _, _, _)
forwards_loop(elements, index, results, to_move) ==
    IF index > Len(elements)
    THEN IF to_move # << >> THEN push_moved(results, to_move) ELSE results
    ELSE IF elements[index] = ForwardE
         THEN IF to_move = << >>
              THEN forwards_loop(elements, index + 1, << >>, results)
              ELSE forwards_loop(elements, index + 1, push_moved(results, to_move), << >>)
         ELSE forwards_loop(elements, index + 1, Append(results, elements[index]), to_move)

process_forwards(element) ==
    IF element.tag = "Grouping"
    THEN XOk(GroupingE(forwards_loop(element.elems, 1, << >>, << >>)))
    ELSE XOk(element)

AllOk(rs) == \A i \in DOMAIN rs : rs[i].kind = "Ok"
Vals(rs) == [i \in DOMAIN rs |-> rs[i].val]

\* the second pass of handle_grouping: a one-element Application collapses
collapse(e) ==
    IF e.tag = "Application" /\ Len(e.elems) = 1 THEN e.elems[1] ELSE e

RECURSIVE express(_)
handle_grouping(elements) ==
    LET rs == [i \in DOMAIN elements |-> express(elements[i])]
    IN  IF ~AllOk(rs) THEN XPanic("express(e).unwrap()")
        ELSE LET expressions == [i \in DOMAIN rs |-> collapse(rs[i].val)]
             IN  IF Len(expressions) = 1
                 THEN XOk(expressions[1])
                 ELSE XOk(ApplicationX(expressions))

express_all(elements) ==
    LET rs == [i \in DOMAIN elements |-> express(elements[i])]
    IN  IF AllOk(rs) THEN XOk(Vals(rs)) ELSE XPanic("express(e).unwrap()")

express(element) ==
    CASE element.tag \in {"Boolean", "Int", "String", "Name", "Nothing",
                          "HostFunction", "Lambda"} -> XOk(element)
      [] element.tag = "Let" ->
            LET ds == [i \in DOMAIN element.decls |-> express(element.decls[i].body)]
                body == express(element.body)
            IN  IF AllOk(ds) /\ body.kind = "Ok"
                THEN XOk(LetE([i \in DOMAIN ds |-> Decl(element.decls[i].name, ds[i].val)],
                              body.val))
                ELSE XPanic("express(e).unwrap()")
      [] element.tag = "Grouping" -> handle_grouping(element.elems)
      [] element.tag = "Conditional" ->
            LET c == express(element.c)
                t == express(element.t)
                e == express(element.e)
            IN  IF c.kind = "Ok" /\ t.kind = "Ok" /\ e.kind = "Ok"
                THEN XOk(ConditionalE(c.val, t.val, e.val))
                ELSE XPanic("express(e).unwrap()")
      [] element.tag \in {"Tuple", "List"} ->
            LET es == express_all(element.elems)
            IN  IF es.kind = "Ok"
                THEN XOk([tag |-> element.tag, elems |-> es.val])
                ELSE es
      [] element.tag = "Set" ->
            LET es == {express(e) : e \in element.members}
            IN  IF \A r \in es : r.kind = "Ok"
                THEN XOk(SetE({r.val : r \in es}))
                ELSE XPanic("express(e).unwrap()")
      [] element.tag = "Record" ->
            LET fs == [n \in DOMAIN element.fields |-> express(element.fields[n])]
            IN  IF \A n \in DOMAIN fs : fs[n].kind = "Ok"
                THEN XOk(RecordE([n \in DOMAIN fs |-> fs[n].val]))
                ELSE XPanic("express(e).unwrap()")
      [] element.tag = "Forward" -> XErr(MsgPipe)

translate(element) ==
    LET f == process_forwards(element)
    IN  IF f.kind = "Ok" THEN express(f.val) ELSE f

-----------------------------------------------------------------------------
(* The evaluator (interpreter.rs).  Its environment is the Bindings plus   *)
(* two records of what happened: calls (the host function runs) and evals  *)
(* (the Expressions passed to eval).  Strings and names are sequences of   *)
(* characters.                                                             *)

RECURSIVE unescape_loop(_, _, _, _)
unescape_loop(value, idx, res, last_char) ==
    IF idx > Len(value)
    THEN IF last_char = "\\" THEN [ok |-> FALSE, s |-> res] ELSE [ok |-> TRUE, s |-> res]
    ELSE LET c == value[idx]
         IN  IF last_char = "\\"
             THEN CASE c = "n" -> unescape_loop(value, idx + 1, Append(res, "\n"), c)
                    [] c = "\\" -> unescape_loop(value, idx + 1, Append(res, "\\"), " ")
                    [] c = "t" -> unescape_loop(value, idx + 1, Append(res, "\t"), c)
                    [] c = "\"" -> unescape_loop(value, idx + 1, Append(res, c), c)
                    [] OTHER -> [ok |-> FALSE, s |-> res]
             ELSE IF c = "\\"
                  THEN unescape_loop(value, idx + 1, res, c)
                  ELSE unescape_loop(value, idx + 1, Append(res, c), c)

unescape_string(value) == unescape_loop(value, 1, << >>, " ")

RECURSIVE split_loop(_, _, _, _)
split_loop(s, idx, cur, acc) ==
    IF idx > Len(s) THEN Append(acc, cur)
    ELSE IF s[idx] = "."
         THEN split_loop(s, idx + 1, << >>, Append(acc, cur))
         ELSE split_loop(s, idx + 1, Append(cur, s[idx]), acc)

\* name.split('.')
split(name) == split_loop(name, 1, << >>, << >>)

RECURSIVE field_loop(_, _, _, _, _)
field_loop(fields, idx, value, res, env) ==
    IF idx > Len(fields)
    THEN IF res.some THEN Ok(res.v, env) ELSE Panic("result.unwrap()", env)
    ELSE LET field == fields[idx]
         IN  IF res.some
             THEN IF res.v.tag = "Record"
                  THEN IF field \in DOMAIN res.v.fields
                       THEN field_loop(fields, idx + 1, value, Some(res.v.fields[field]), env)
                       ELSE Panic("r.get(field).unwrap()", env)
                  ELSE Err(MsgAccessField, env)
             ELSE IF field \in DOMAIN value
                  THEN field_loop(fields, idx + 1, value, Some(value[field]), env)
                  ELSE Err(MsgReadField, env)

read_field(name, env) ==
    LET t == split(name)
        first == Head(t)
        fields == Tail(t)
        bound == read(env, first)
    IN  IF bound.some /\ bound.v.tag = "Record"
        THEN field_loop(fields, 1, bound.v.fields, None, env)
        ELSE Err(MsgLookup, env)

read_name(name, env) ==
    LET value == read(env, name)
    IN  IF value.some THEN Ok(value.v, env)
        ELSE IF read_host_function(env, name).some
             THEN Panic("todo!()", env)
             ELSE read_field(name, env)

RECURSIVE read_params(_, _, _, _)
read_params(params, idx, arguments, env) ==
    IF idx > Len(params) THEN Ok(arguments, env)
    ELSE LET value == read(env, params[idx].name)
         IN  IF value.some
             THEN read_params(params, idx + 1, Append(arguments, value.v), env)
             ELSE Err(MsgCouldNotRead, env)

handle_host_function(name, env) ==
    LET host_function == read_host_function(env, name)
    IN  IF ~host_function.some THEN Panic("read_host_function(name).unwrap()", env)
        ELSE LET arguments == read_params(host_function.v.parameters, 1, << >>, env)
             IN  IF arguments.kind # "Ok" THEN arguments
                 ELSE host_run(name, arguments.val,
                               [env EXCEPT !.calls =
                                   Append(@, [name |-> name, args |-> arguments.val])])

handle_lambda(name, input, output, body, env) ==
    Ok(LambdaV(name, input, output, body), env)

\* the members of a HashSet, or the names of a HashMap, one after the other
RECURSIVE SeqOf(_)
SeqOf(members) ==
    IF members = {} THEN << >>
    ELSE LET m == CHOOSE x \in members : TRUE
         IN  <<m>> \o SeqOf(members \ {m})

\* [ok, e]: the Expression of a Value; todo!() for a HostValue
RECURSIVE value_to_expression(_)
value_to_expression(value) ==
    CASE value.tag = "Bool" -> [ok |-> TRUE, e |-> BooleanE(value.b)]
      [] value.tag \in {"Int", "String", "Nothing", "Lambda"} -> [ok |-> TRUE, e |-> value]
      [] value.tag \in {"List", "Tuple"} ->
            LET es == [i \in DOMAIN value.elems |-> value_to_expression(value.elems[i])]
            IN  [ok |-> \A i \in DOMAIN es : es[i].ok,
                 e |-> [tag |-> value.tag, elems |-> [i \in DOMAIN es |-> es[i].e]]]
      [] value.tag = "Record" ->
            LET es == [n \in DOMAIN value.fields |-> value_to_expression(value.fields[n])]
            IN  [ok |-> \A n \in DOMAIN es : es[n].ok,
                 e |-> RecordE([n \in DOMAIN es |-> es[n].e])]
      [] value.tag = "Set" ->
            LET es == {value_to_expression(v) : v \in value.members}
            IN  [ok |-> \A x \in es : x.ok, e |-> SetE({x.e : x \in es})]
      [] value.tag = "HostValue" -> [ok |-> FALSE, e |-> NothingE]

\* Option<Result<..>> of run_lambda: Some(result), or None with the
\* expressions and the environment as run_lambda leaves them
RLSome(res) == [some |-> TRUE, res |-> res]
RLNone(expressions, env) == [some |-> FALSE, expressions |-> expressions, env |-> env]

RECURSIVE eval(_, _)
RECURSIVE handle_function_call(_, _)
RECURSIVE call_loop(_, _)
RECURSIVE run_lambda(_, _, _, _, _, _)
RECURSIVE eval_elems(_, _, _, _)
RECURSIVE eval_fields(_, _, _, _, _)
RECURSIVE eval_set(_, _, _, _)
RECURSIVE decl_loop(_, _, _)

\* a variant that leaves a failed element out and goes on with the next
eval_elems_skip_failed(expressions, idx, results, env) ==
    IF idx > Len(expressions) THEN Ok(results, env)
    ELSE LET r == eval(expressions[idx], env)
         IN  IF r.kind = "Ok"
             THEN eval_elems(expressions, idx + 1, Append(results, r.val), r.env)
             ELSE eval_elems(expressions, idx + 1, results, r.env)

\* the loop of handle_list and handle_tuple: values in order, first error returned
eval_elems(expressions, idx, results, env) ==
    IF idx > Len(expressions) THEN Ok(results, env)
    ELSE LET r == eval(expressions[idx], env)
         IN  IF r.kind = "Ok"
             THEN eval_elems(expressions, idx + 1, Append(results, r.val), r.env)
             ELSE r

handle_list(expressions, env) ==
    LET r == eval_elems(expressions, 1, << >>, env)
    IN  IF r.kind = "Ok" THEN Ok(ListV(r.val), r.env) ELSE r

handle_tuple(expressions, env) ==
    LET r == eval_elems(expressions, 1, << >>, env)
    IN  IF r.kind = "Ok" THEN Ok(TupleV(r.val), r.env) ELSE r

(* Every HashMap and every HashSet iterates in an order of its own, which  *)
(* the program does not choose.  `orders` lists these orders, one for each *)
(* collection in the order the collections are iterated; an order is a     *)
(* sequence of positions in SeqOf's listing of the entries.  A collection  *)
(* of n entries iterates the positions its order names, in the order's     *)
(* order, then the positions the order does not name: every entry once.    *)
iteration(n, order) ==
    SelectSeq(order, LAMBDA i : i \in 1..n) \o
    SelectSeq([i \in 1..n |-> i], LAMBDA i : \A j \in DOMAIN order : order[j] # i)

\* the entries of a collection in the order the next of `orders` gives
iterate(entries, orders) ==
    LET listed == SeqOf(entries)
        order == iteration(Len(listed), IF orders = << >> THEN << >> ELSE Head(orders))
    IN  [k \in DOMAIN order |-> listed[order[k]]]

\* the orders left for the collections iterated after this one
later(orders) == IF orders = << >> THEN << >> ELSE Tail(orders)

\* the loop of handle_record over the HashMap's entries, `names` listing
\* the names in the order the HashMap iterates
eval_fields(expressions, names, idx, results, env) ==
    IF idx > Len(names) THEN Ok(results, env)
    ELSE LET r == eval(expressions[names[idx]], env)
         IN  IF r.kind = "Ok"
             THEN eval_fields(expressions, names, idx + 1,
                              insert(results, names[idx], r.val), r.env)
             ELSE r

handle_record(expressions, env) ==
    LET r == eval_fields(expressions, iterate(DOMAIN expressions, env.orders), 1, << >>,
                         [env EXCEPT !.orders = later(@)])
    IN  IF r.kind = "Ok" THEN Ok(RecordV(r.val), r.env) ELSE r

\* the loop of handle_set over the expressions, `members` listing them in
\* the order the HashSet iterates
eval_set(members, idx, results, env) ==
    IF idx > Len(members) THEN Ok(results, env)
    ELSE LET r == eval(members[idx], env)
         IN  IF r.kind = "Ok"
             THEN eval_set(members, idx + 1, results \cup {r.val}, r.env)
             ELSE r

handle_set(expressions, env) ==
    LET r == eval_set(iterate(expressions, env.orders), 1, {},
                      [env EXCEPT !.orders = later(@)])
    IN  IF r.kind = "Ok" THEN Ok(SetV(r.val), r.env) ELSE r

\* a variant that evaluates both branches before it looks at the condition
handle_conditional_eager(cond, ife, elsee, env) ==
    LET c == eval(cond, env)
        t == eval(ife, c.env)
        e == eval(elsee, t.env)
    IN  IF c.kind # "Ok" THEN c
        ELSE IF t.kind # "Ok" THEN t
        ELSE IF e.kind # "Ok" THEN e
        ELSE IF c.val = BoolV(TRUE) THEN Ok(t.val, e.env)
        ELSE IF c.val = BoolV(FALSE) THEN e
        ELSE Err(MsgCondBool, c.env)

\* a variant that takes every value but true for false
handle_conditional_truthy(cond, ife, elsee, env) ==
    LET c == eval(cond, env)
    IN  IF c.kind # "Ok" THEN c
        ELSE IF c.val = BoolV(TRUE) THEN eval(ife, c.env)
        ELSE eval(elsee, c.env)

handle_conditional(cond, ife, elsee, env) ==
    LET c == eval(cond, env)
    IN  IF c.kind # "Ok" THEN c
        ELSE IF c.val = BoolV(TRUE) THEN eval(ife, c.env)
        ELSE IF c.val = BoolV(FALSE) THEN eval(elsee, c.env)
        ELSE Err(MsgCondBool, c.env)

handle_decl(name, body, env) ==
    LET r == eval(body, env)
    IN  IF r.kind # "Ok" THEN r
        ELSE IF bind_aborts(r.env) THEN Panic("scopes.pop().unwrap()", r.env)
        ELSE Ok(NothingV, bind(r.env, name, r.val))

decl_loop(decls, idx, env) ==
    IF idx > Len(decls) THEN Ok(NothingV, env)
    ELSE LET r == handle_decl(decls[idx].name, decls[idx].body, env)
         IN  IF r.kind = "Ok" THEN decl_loop(decls, idx + 1, r.env) ELSE r

\* a variant that evaluates every declaration against the environment the
\* let started in and binds the values afterwards
RECURSIVE bind_values(_, _, _, _, _)
bind_values(decls, idx, env0, env, body) ==
    IF idx > Len(decls) THEN eval(body, env)
    ELSE LET r == eval(decls[idx].body, env0)
         IN  IF r.kind # "Ok" THEN r
             ELSE bind_values(decls, idx + 1, env0, bind(env, decls[idx].name, r.val), body)

handle_let_parallel(decls, body, env) == bind_values(decls, 1, env, env, body)

handle_let(decls, body, env) ==
    LET r == decl_loop(decls, 1, env)
    IN  IF r.kind = "Ok" THEN eval(body, r.env) ELSE r

\* run_lambda's answer for a body that did not evaluate to a Lambda
non_lambda_result(function, expressions) ==
    IF expressions = << >>
    THEN RLSome(Ok(function.val, function.env))
    ELSE RLSome(Err(MsgInvalidCall, function.env))

\* run_lambda's step for a body that evaluated to a Lambda: the body of
\* that Lambda is evaluated at once and its value pushed
returned_lambda(function, expressions) ==
    LET x == express(function.val.body)
    IN  IF x.kind = "Err" THEN RLNone(expressions, function.env)
        ELSE IF x.kind = "Panic" THEN RLSome(Panic(x.val.msg, function.env))
        ELSE LET v == eval(x.val, function.env)
             IN  IF v.kind # "Ok" THEN RLSome(v)
                 ELSE LET ve == value_to_expression(v.val)
                      IN  IF ve.ok
                          THEN RLNone(Append(expressions, ve.e), v.env)
                          ELSE RLSome(Panic("todo!()", v.env))

run_lambda(name, input, output, lambda_body, expressions, env) ==
    IF expressions = << >>
    THEN RLSome(Ok(LambdaV(name, input, output, lambda_body), env))
    ELSE LET argument_expression == Last(expressions)
             rest == Front(expressions)
             argument_value == eval(argument_expression, env)
         IN  IF argument_value.kind # "Ok" THEN RLSome(argument_value)
             ELSE IF bind_aborts(argument_value.env)
                  THEN RLSome(Panic("scopes.pop().unwrap()", argument_value.env))
             ELSE LET env1 == bind(argument_value.env, name, argument_value.val)
                      x == express(lambda_body)
                  IN  IF x.kind = "Err" THEN RLSome(Err(x.val.msg, env1))
                      ELSE IF x.kind = "Panic" THEN RLSome(Panic(x.val.msg, env1))
                      ELSE LET function == eval(x.val, env1)
                           IN  IF function.kind # "Ok" THEN RLSome(function)
                               ELSE IF function.val.tag = "Lambda"
                                    THEN returned_lambda(function, rest)
                                    ELSE non_lambda_result(function, rest)

\* handle_function_call's arm for a parenthesised application
application_head(contents, expressions, env) ==
    LET r == handle_function_call(contents, env)
    IN  IF r.kind # "Ok" THEN r
        ELSE IF r.val.tag = "Lambda"
             THEN LET res == run_lambda(r.val.p, r.val.i, r.val.o, r.val.body,
                                        expressions, r.env)
                  IN  IF res.some THEN res.res
                      ELSE call_loop(res.expressions, res.env)
             ELSE Ok(r.val, r.env)

\* handle_function_call's arm for a Lambda expression
lambda_head(lambda, expressions, env) ==
    LET res == run_lambda(lambda.p, lambda.i, lambda.o, lambda.body, expressions, env)
    IN  IF res.some THEN res.res ELSE call_loop(res.expressions, res.env)

\* handle_function_call's arm for a Name
name_head(name, expressions, env) ==
    LET value == eval(NameE(name), env)
    IN  IF value.kind # "Ok" THEN value
        ELSE IF value.val.tag # "Lambda" THEN Err(MsgExpectedLambda, value.env)
        ELSE IF expressions = << >> THEN Panic("expressions.pop().unwrap()", value.env)
        ELSE LET argument_expression == Last(expressions)
                 rest == Front(expressions)
                 argument_value == eval(argument_expression, value.env)
             IN  IF argument_value.kind # "Ok" THEN argument_value
                 ELSE IF bind_aborts(argument_value.env)
                      THEN Panic("scopes.pop().unwrap()", argument_value.env)
                 ELSE LET env1 == bind(argument_value.env, value.val.p, argument_value.val)
                          x == express(value.val.body)
                      IN  IF x.kind = "Err" THEN Err(x.val.msg, env1)
                          ELSE IF x.kind = "Panic" THEN Panic(x.val.msg, env1)
                          ELSE LET v == eval(x.val, env1)
                               IN  IF v.kind # "Ok" THEN v
                                   ELSE LET ve == value_to_expression(v.val)
                                        IN  IF ve.ok
                                            THEN call_loop(Append(rest, ve.e), v.env)
                                            ELSE Panic("todo!()", v.env)

\* handle_function_call's last arm: any other expression at the head
value_head(value, expressions, env) ==
    IF expressions = << >>
    THEN eval(value, env)
    ELSE Err(MsgInvalidCall, env)

\* the `while let Some(expression) = expressions.pop()` loop; expressions
\* is the reversed vector, its last element is the next one popped
call_loop(expressions, env) ==
    IF expressions = << >> THEN Panic("panic!()", env)
    ELSE LET expression == Last(expressions)
             rest == Front(expressions)
         IN  CASE expression.tag = "Application" ->
                     application_head(expression.elems, rest, env)
               [] expression.tag = "Lambda" -> lambda_head(expression, rest, env)
               [] expression.tag = "Name" -> name_head(expression.name, rest, env)
               [] OTHER -> value_head(expression, rest, env)

handle_function_call(expressions, env) ==
    IF Len(expressions) = 1
    THEN eval(expressions[1], env)
    ELSE call_loop(Reverse(expressions), env)

eval_string(value, env) ==
    LET u == unescape_string(value)
    IN  IF u.ok THEN Ok(StringV(u.s), env) ELSE Panic("unescape_string", env)

eval(expression, env0) ==
    LET env == [env0 EXCEPT !.evals = Append(@, expression)]
    IN  CASE expression.tag = "Boolean" -> Ok(BoolV(expression.b), env)
          [] expression.tag = "Int" -> Ok(IntV(expression.n), env)
          [] expression.tag = "String" -> eval_string(expression.s, env)
          [] expression.tag = "Let" -> handle_let(expression.decls, expression.body, env)
          [] expression.tag = "Name" -> read_name(expression.name, env)
          [] expression.tag = "Application" -> handle_function_call(expression.elems, env)
          [] expression.tag = "Conditional" ->
                handle_conditional(expression.c, expression.t, expression.e, env)
          [] expression.tag = "List" -> handle_list(expression.elems, env)
          [] expression.tag = "Nothing" -> Ok(NothingV, env)
          [] expression.tag = "Tuple" -> handle_tuple(expression.elems, env)
          [] expression.tag = "Record" -> handle_record(expression.fields, env)
          [] expression.tag = "Set" -> handle_set(expression.members, env)
          [] expression.tag = "Lambda" ->
                handle_lambda(expression.p, expression.i, expression.o, expression.body, env)
          [] expression.tag = "HostFunction" -> handle_host_function(expression.name, env)

-----------------------------------------------------------------------------
(* run (lib.rs), from the parsed Element on: translate, then eval against  *)
(* the Bindings.  orders holds the iteration orders of the HashMaps and    *)
(* HashSets the run iterates, one for each, in the order they are iterated.*)

Env(b, orders) ==
    [scopes |-> b.scopes, host_functions |-> b.host_functions,
     token_transformers |-> b.token_transformers,
     calls |-> << >>, evals |-> << >>, orders |-> orders]

BindingsOf(env) ==
    [scopes |-> env.scopes, host_functions |-> env.host_functions,
     token_transformers |-> env.token_transformers]

\* no order named: a run that iterates no collection of two entries
NoOrders == << >>

run(element, b, orders) ==
    LET x == translate(element)
    IN  IF x.kind = "Ok"
        THEN eval(x.val, Env(b, orders))
        ELSE [kind |-> x.kind, val |-> x.val, env |-> Env(b, orders)]

-----------------------------------------------------------------------------
(* Rendering a value as text (lib.rs), and reading a string literal back   *)
(* (the lexer).  A text is a sequence of characters.                       *)

Quote == "\""
Backslash == "\\"

\* str::replace of one character by a text
RECURSIVE replace(_, _, _)
replace(string, from, to) ==
    IF string = << >> THEN << >>
    ELSE (IF Head(string) = from THEN to ELSE <<Head(string)>>)
         \o replace(Tail(string), from, to)

write_string(string) ==
    LET escaped_string ==
            replace(replace(replace(replace(replace(string,
                Backslash, <<Backslash, Backslash>>),
                Quote, <<Backslash, Quote>>),
                "\n", <<Backslash, "n">>),
                "\r", <<Backslash, "r">>),
                "\t", <<Backslash, "t">>)
    IN  <<Quote>> \o escaped_string \o <<Quote>>

Digits == <<"0", "1", "2", "3", "4", "5", "6", "7", "8", "9">>

\* Display of an integer: its decimal digits, a minus sign before them
RECURSIVE nat_text(_)
nat_text(n) ==
    IF n < 10 THEN <<Digits[n + 1]>>
    ELSE nat_text(n \div 10) \o <<Digits[(n % 10) + 1]>>

int_text(n) == IF n < 0 THEN <<"-">> \o nat_text(0 - n) ELSE nat_text(n)

(* Display for WanderValue and Debug for Element.  A HashMap or HashSet    *)
(* is written entry by entry in the order it iterates: writing takes the   *)
(* orders as evaluation does, one for each collection written, and answers *)
(* the text with the orders left.                                          *)
W(text, orders) == [text |-> text, orders |-> orders]

\* the control characters U+0001 .. U+001F, each at its code point, and
\* U+007F: the characters of a text of the model that are not printable
\* (U+0000, which Debug writes \0, is in no text of the model)
Controls ==
    <<"", "", "", "", "", "", "", "", "\t", "\n", "", "\f", "\r", "", "", "",
      "", "", "", "", "", "", "", "", "", "", "", "", "", "", "">>
Delete == ""

HexDigits == <<"0", "1", "2", "3", "4", "5", "6", "7", "8", "9", "a", "b", "c", "d", "e", "f">>

RECURSIVE hex(_)
hex(n) ==
    IF n < 16 THEN <<HexDigits[n + 1]>>
    ELSE hex(n \div 16) \o <<HexDigits[(n % 16) + 1]>>

is_printable(c) == c # Delete /\ \A i \in DOMAIN Controls : Controls[i] # c

code_point(c) ==
    IF c = Delete THEN 127 ELSE CHOOSE i \in DOMAIN Controls : Controls[i] = c

\* char::escape_unicode: \u{..} around the hexadecimal digits
escape_unicode(c) == <<Backslash, "u", "{">> \o hex(code_point(c)) \o <<"}">>

\* Debug of a string: the characters between quotes, escaped one by one;
\* a character that is not printable is written as its unicode escape
RECURSIVE escape_debug(_)
escape_debug(string) ==
    IF string = << >> THEN << >>
    ELSE (CASE Head(string) = Backslash -> <<Backslash, Backslash>>
            [] Head(string) = Quote -> <<Backslash, Quote>>
            [] Head(string) = "\n" -> <<Backslash, "n">>
            [] Head(string) = "\r" -> <<Backslash, "r">>
            [] Head(string) = "\t" -> <<Backslash, "t">>
            [] OTHER -> IF is_printable(Head(string)) THEN <<Head(string)>>
                        ELSE escape_unicode(Head(string)))
         \o escape_debug(Tail(string))

debug_string(string) == <<Quote>> \o escape_debug(string) \o <<Quote>>

\* Debug of a WanderType
type_text(type) ==
    CASE type = "Any" -> <<"A", "n", "y">>
      [] type = "Boolean" -> <<"B", "o", "o", "l", "e", "a", "n">>
      [] type = "Int" -> <<"I", "n", "t">>
      [] type = "String" -> <<"S", "t", "r", "i", "n", "g">>
      [] type = "Nothing" -> <<"N", "o", "t", "h", "i", "n", "g">>
      [] type = "Lambda" -> <<"L", "a", "m", "b", "d", "a">>
      [] type = "List" -> <<"L", "i", "s", "t">>
      [] type = "Tuple" -> <<"T", "u", "p", "l", "e">>

\* Debug of the tag of a parameter or a declaration: None, Some("T"), or
\* the WanderType a host function's binding gave
debug_tag(tag) ==
    IF "type" \in DOMAIN tag THEN type_text(tag.type)
    ELSE IF tag.some
    THEN <<"S", "o", "m", "e", "(">> \o debug_string(tag.v) \o <<")">>
    ELSE <<"N", "o", "n", "e">>

RECURSIVE fmt(_, _)
RECURSIVE debug(_, _)
RECURSIVE write_each(_, _, _, _, _)

\* one entry of what is written: a value (Display), an element (Debug), a
\* field of a record value, an entry of a record element, a declaration
write_item(kind, item, orders) ==
    CASE kind = "Display" -> fmt(item, orders)
      [] kind = "Debug" -> debug(item, orders)
      [] kind = "Field" ->
            LET v == fmt(item.value, orders)
            IN  W(item.name \o <<" ", "=", " ">> \o v.text, v.orders)
      [] kind = "Entry" ->
            LET v == debug(item.value, orders)
            IN  W(debug_string(item.name) \o <<":", " ">> \o v.text, v.orders)
      [] kind = "Decl" ->
            LET v == debug(item.body, orders)
            IN  W(<<"(">> \o debug_string(item.name) \o <<",", " ">> \o debug_tag(item.tag)
                  \o <<",", " ">> \o v.text \o <<")">>, v.orders)

\* the items from idx on after what is written, the separator between them
write_each(kind, items, separator, idx, written) ==
    IF idx > Len(items) THEN written
    ELSE LET w == write_item(kind, items[idx], written.orders)
         IN  write_each(kind, items, separator, idx + 1,
                        W(written.text \o w.text \o
                          (IF idx < Len(items) THEN separator ELSE << >>), w.orders))

finished(written, close) == W(written.text \o close, written.orders)

\* the entries of a HashMap in the order the next of `orders` gives
entries(contents, orders) ==
    LET names == iterate(DOMAIN contents, orders)
    IN  [k \in DOMAIN names |-> [name |-> names[k], value |-> contents[names[k]]]]

write_list_or_tuple_wander_value(open, close, contents, orders) ==
    finished(write_each("Display", contents, <<" ">>, 1, W(open, orders)), close)

write_set(contents, orders) ==
    finished(write_each("Display", iterate(contents, orders), <<" ">>, 1,
                      W(<<"#", "(">>, later(orders))), <<")">>)

write_host_value(value) == value.hv

write_record(contents, orders) ==
    finished(write_each("Field", entries(contents, orders), <<" ">>, 1,
                      W(<<"{">>, later(orders))), <<"}">>)

\* Debug of a Vec
debug_list(kind, items, orders) ==
    finished(write_each(kind, items, <<",", " ">>, 1, W(<<"[">>, orders)), <<"]">>)

\* Debug of an Element, and of the Lambda value, which has its fields
debug(element, orders) ==
    CASE element.tag = "Boolean" ->
            W(<<"B", "o", "o", "l", "e", "a", "n">> \o <<"(">> \o
              (IF element.b THEN <<"t", "r", "u", "e">> ELSE <<"f", "a", "l", "s", "e">>) \o <<")">>, orders)
      [] element.tag = "Int" -> W(<<"I", "n", "t">> \o <<"(">> \o int_text(element.n) \o <<")">>, orders)
      [] element.tag = "String" ->
            W(<<"S", "t", "r", "i", "n", "g">> \o <<"(">> \o debug_string(element.s) \o <<")">>, orders)
      [] element.tag = "Name" ->
            W(<<"N", "a", "m", "e">> \o <<"(">> \o debug_string(element.name) \o <<")">>, orders)
      [] element.tag = "HostFunction" ->
            W(<<"H", "o", "s", "t", "F", "u", "n", "c", "t", "i", "o", "n">> \o <<"(">> \o debug_string(element.name) \o <<")">>, orders)
      [] element.tag = "Nothing" -> W(<<"N", "o", "t", "h", "i", "n", "g">>, orders)
      [] element.tag = "Forward" -> W(<<"P", "i", "p", "e">>, orders)
      [] element.tag = "Let" ->
            LET decls == debug_list("Decl", element.decls, orders)
                body == debug(element.body, decls.orders)
            IN  W(<<"L", "e", "t">> \o <<"(">> \o decls.text \o <<",", " ">> \o body.text \o <<")">>,
                  body.orders)
      [] element.tag = "Conditional" ->
            finished(write_each("Debug", <<element.c, element.t, element.e>>, <<",", " ">>, 1,
                              W(<<"C", "o", "n", "d", "i", "t", "i", "o", "n", "a", "l">> \o <<"(">>, orders)), <<")">>)
      [] element.tag = "Lambda" ->
            LET body == debug(element.body, orders)
            IN  W(<<"L", "a", "m", "b", "d", "a">> \o <<"(">> \o debug_string(element.p) \o <<",", " ">> \o
                  debug_tag(element.i) \o <<",", " ">> \o debug_tag(element.o) \o
                  <<",", " ">> \o body.text \o <<")">>, body.orders)
      [] element.tag \in {"Grouping", "Tuple", "List"} ->
            LET items == debug_list("Debug", element.elems, orders)
            IN  W((CASE element.tag = "Grouping" -> <<"G", "r", "o", "u", "p", "i", "n", "g">>
                     [] element.tag = "Tuple" -> <<"T", "u", "p", "l", "e">>
                     [] element.tag = "List" -> <<"L", "i", "s", "t">>)
                  \o <<"(">> \o items.text \o <<")">>, items.orders)
      [] element.tag = "Set" ->
            finished(write_each("Debug", iterate(element.members, orders), <<",", " ">>, 1,
                              W(<<"S", "e", "t">> \o <<"(", "{">>, later(orders))), <<"}", ")">>)
      [] element.tag = "Record" ->
            finished(write_each("Entry", entries(element.fields, orders), <<",", " ">>, 1,
                              W(<<"R", "e", "c", "o", "r", "d">> \o <<"(", "{">>, later(orders))), <<"}", ")">>)

fmt(value, orders) ==
    CASE value.tag = "Bool" -> W(IF value.b THEN <<"t", "r", "u", "e">> ELSE <<"f", "a", "l", "s", "e">>, orders)
      [] value.tag = "Int" -> W(int_text(value.n), orders)
      [] value.tag = "String" -> W(write_string(value.s), orders)
      [] value.tag = "Nothing" -> W(<<"n", "o", "t", "h", "i", "n", "g">>, orders)
      [] value.tag = "List" ->
            write_list_or_tuple_wander_value(<<"[">>, <<"]">>, value.elems, orders)
      [] value.tag = "HostValue" -> W(write_host_value(value), orders)
      [] value.tag = "Tuple" ->
            write_list_or_tuple_wander_value(<<"'", "(">>, <<")">>, value.elems, orders)
      [] value.tag = "Record" -> write_record(value.fields, orders)
      [] value.tag = "Lambda" ->
            LET written == debug(value, orders)
            IN  W(<<"[", "l", "a", "m", "b", "d", "a", " ">> \o written.text \o <<"]">>, written.orders)
      [] value.tag = "Set" -> write_set(value.members, orders)

\* the text Display gives: what println!("{result}") prints
to_string(value, orders) == fmt(value, orders).text

\* the lexer on a text that is one string literal: the characters between
\* the quotes, escapes kept as written; an escape other than \n \t \\ \"
\* and a string without its closing quote are errors
RECURSIVE string_token_loop(_, _, _)
string_token_loop(text, idx, content) ==
    IF idx > Len(text) THEN [ok |-> FALSE, s |-> content]
    ELSE IF text[idx] = Quote
         THEN [ok |-> idx = Len(text), s |-> content]
    ELSE IF text[idx] = Backslash
         THEN IF idx + 1 <= Len(text) /\ text[idx + 1] \in {"n", "t", Backslash, Quote}
              THEN string_token_loop(text, idx + 2,
                                     content \o <<text[idx], text[idx + 1]>>)
              ELSE [ok |-> FALSE, s |-> content]
    ELSE string_token_loop(text, idx + 1, Append(content, text[idx]))

string_token(text) ==
    IF text = << >> \/ Head(text) # Quote THEN [ok |-> FALSE, s |-> << >>]
    ELSE string_token_loop(text, 2, << >>)

-----------------------------------------------------------------------------
(* The lexer.  tokenize_and_filter reads a text into tokens without the    *)
(* whitespace: integers with an optional leading minus, double-quoted      *)
(* strings with the escapes \n \t \\ \", the keywords and punctuation,     *)
(* and maximal runs of other characters as names.                          *)

MsgLex == "Error tokenizing"

IsDigit(c) == \E i \in DOMAIN Digits : Digits[i] = c
DigitValue(c) == (CHOOSE i \in DOMAIN Digits : Digits[i] = c) - 1

Whitespace == {" ", "\n", "\t", "\r"}

Punctuation ==
    <<[c |-> "(", tag |-> "OpenParen"], [c |-> ")", tag |-> "CloseParen"],
      [c |-> "[", tag |-> "OpenSquare"], [c |-> "]", tag |-> "CloseSquare"],
      [c |-> "{", tag |-> "OpenBrace"], [c |-> "}", tag |-> "CloseBrace"],
      [c |-> "=", tag |-> "EqualSign"], [c |-> ":", tag |-> "Colon"],
      [c |-> "#", tag |-> "Hash"], [c |-> "'", tag |-> "SingleQuote"],
      [c |-> "?", tag |-> "QuestionMark"], [c |-> Backslash, tag |-> "Lambda"]>>

IsPunctuation(c) == \E i \in DOMAIN Punctuation : Punctuation[i].c = c
PunctuationTag(c) == Punctuation[CHOOSE i \in DOMAIN Punctuation : Punctuation[i].c = c].tag

Keywords ==
    <<[w |-> <<"l", "e", "t">>, t |-> Tok("Let")],
      [w |-> <<"i", "n">>, t |-> Tok("In")],
      [w |-> <<"e", "n", "d">>, t |-> Tok("End")],
      [w |-> <<"i", "f">>, t |-> Tok("If")],
      [w |-> <<"t", "h", "e", "n">>, t |-> Tok("Then")],
      [w |-> <<"e", "l", "s", "e">>, t |-> Tok("Else")],
      [w |-> <<"v", "a", "l">>, t |-> Tok("Val")],
      [w |-> <<"n", "o", "t", "h", "i", "n", "g">>, t |-> Tok("Nothing")],
      [w |-> <<"t", "r", "u", "e">>, t |-> BooleanT(TRUE)],
      [w |-> <<"f", "a", "l", "s", "e">>, t |-> BooleanT(FALSE)]>>

word_token(w) ==
    IF \E i \in DOMAIN Keywords : Keywords[i].w = w
    THEN Keywords[CHOOSE i \in DOMAIN Keywords : Keywords[i].w = w].t
    ELSE NameT(w)

\* the index after the run of characters from idx on that satisfy Is
RECURSIVE digits_end(_, _)
digits_end(text, idx) ==
    IF idx <= Len(text) /\ IsDigit(text[idx]) THEN digits_end(text, idx + 1) ELSE idx

IsWordChar(c) ==
    ~(c \in Whitespace \/ IsPunctuation(c) \/ c = Quote \/ c = ">" \/ c = "-")

RECURSIVE word_end(_, _)
word_end(text, idx) ==
    IF idx <= Len(text) /\ IsWordChar(text[idx]) THEN word_end(text, idx + 1) ELSE idx

RECURSIVE digits_value(_, _, _, _)
digits_value(text, idx, end, acc) ==
    IF idx >= end THEN acc
    ELSE digits_value(text, idx + 1, end, acc * 10 + DigitValue(text[idx]))

\* the index of the quote that closes the string opened before idx, 0 when
\* the string is not closed or has an escape the lexer does not know
RECURSIVE string_end(_, _)
string_end(text, idx) ==
    IF idx > Len(text) THEN 0
    ELSE IF text[idx] = Quote THEN idx
    ELSE IF text[idx] = Backslash
         THEN IF idx + 1 <= Len(text) /\ text[idx + 1] \in {"n", "t", Backslash, Quote}
              THEN string_end(text, idx + 2)
              ELSE 0
    ELSE string_end(text, idx + 1)

RECURSIVE tokenize_loop(_, _, _)
tokenize_loop(text, idx, toks) ==
    IF idx > Len(text) THEN [kind |-> "Ok", val |-> toks]
    ELSE LET c == text[idx]
             next_c == IF idx + 1 <= Len(text) THEN text[idx + 1] ELSE " "
         IN  CASE c \in Whitespace -> tokenize_loop(text, idx + 1, toks)
               [] c = "-" /\ next_c = ">" ->
                     tokenize_loop(text, idx + 2, Append(toks, Tok("Arrow")))
               [] c = ">" /\ next_c = ">" ->
                     tokenize_loop(text, idx + 2, Append(toks, Tok("Pipe")))
               [] c = "-" /\ IsDigit(next_c) ->
                     LET end == digits_end(text, idx + 1)
                     IN  tokenize_loop(text, end,
                            Append(toks, IntT(0 - digits_value(text, idx + 1, end, 0))))
               [] IsDigit(c) ->
                     LET end == digits_end(text, idx)
                     IN  tokenize_loop(text, end,
                            Append(toks, IntT(digits_value(text, idx, end, 0))))
               [] c = Quote ->
                     LET end == string_end(text, idx + 1)
                     IN  IF end = 0 THEN [kind |-> "Err", val |-> WanderError(MsgLex)]
                         ELSE tokenize_loop(text, end + 1,
                                 Append(toks, StringT(SubSeq(text, idx + 1, end - 1))))
               [] IsPunctuation(c) ->
                     tokenize_loop(text, idx + 1, Append(toks, Tok(PunctuationTag(c))))
               [] IsWordChar(c) ->
                     LET end == word_end(text, idx)
                     IN  tokenize_loop(text, end,
                            Append(toks, word_token(SubSeq(text, idx, end - 1))))
               [] OTHER -> [kind |-> "Err", val |-> WanderError(MsgLex)]

tokenize_and_filter(text) == tokenize_loop(text, 1, << >>)

(* The token transformers.  transform applies every transformer bound in   *)
(* the Bindings to the tokens; a transformer answers tokens or an error.   *)
(* Two transformers of a host: one rewrites the name x to true, one        *)
(* rejects every stream; their answers do not depend on their order.       *)

MsgTransform == "Error transforming"

TrueTransformer == "x is true"
RejectTransformer == "reject"

apply_transformer(transformer, tokens) ==
    IF transformer = RejectTransformer
    THEN [kind |-> "Err", val |-> WanderError(MsgTransform)]
    ELSE [kind |-> "Ok",
          val |-> [i \in DOMAIN tokens |->
                      IF tokens[i] = NameT(<<"x">>) THEN BooleanT(TRUE) ELSE tokens[i]]]

\* the transformers of the Bindings, one after the other
RECURSIVE transform_loop(_, _, _)
transform_loop(tokens, transformers, names) ==
    IF names = {} THEN [kind |-> "Ok", val |-> tokens]
    ELSE LET n == CHOOSE m \in names : TRUE
             r == apply_transformer(transformers[n], tokens)
         IN  IF r.kind = "Ok" THEN transform_loop(r.val, transformers, names \ {n})
             ELSE r

transform(tokens, b) ==
    transform_loop(tokens, b.token_transformers, DOMAIN b.token_transformers)

(* run (lib.rs): tokenize_and_filter, transform, parse, translate, eval,   *)
(* each on what the stage before it returned, stopping at the first stage  *)
(* that does not return Ok.  The answer names the stages that ran.         *)

Stopped(r, b, orders, ran) ==
    [kind |-> r.kind, val |-> r.val, env |-> Env(b, orders), stages |-> ran]

\* eval's answer is the answer of run
after_eval(value, ran) ==
    [kind |-> value.kind, val |-> value.val, env |-> value.env, stages |-> ran]

after_translate(expression, b, orders, ran) ==
    IF expression.kind # "Ok" THEN Stopped(expression, b, orders, ran)
    ELSE after_eval(eval(expression.val, Env(b, orders)), ran \o <<"eval">>)

after_parse(elements, b, orders, ran) ==
    IF elements.kind # "Ok" THEN Stopped(elements, b, orders, ran)
    ELSE after_translate(translate(elements.val), b, orders, ran \o <<"translate">>)

after_transform(transformed, b, orders, ran) ==
    IF transformed.kind # "Ok" THEN Stopped(transformed, b, orders, ran)
    ELSE after_parse(parse(transformed.val), b, orders, ran \o <<"parse">>)

\* a variant that goes on with the tokens it was given, whatever the
\* transformers answer
run_tokens_ignore_transform(tokens, b, orders, ran) ==
    after_parse(parse(tokens), b, orders, ran \o <<"transform", "parse">>)

\* run from the tokens on; ran names the stages before
run_tokens(tokens, b, orders, ran) ==
    after_transform(transform(tokens, b), b, orders, ran \o <<"transform">>)

after_tokenize(tokens, b, orders, ran) ==
    IF tokens.kind # "Ok" THEN Stopped(tokens, b, orders, ran)
    ELSE run_tokens(tokens.val, b, orders, ran)

run_script(text, b, orders) ==
    after_tokenize(tokenize_and_filter(text), b, orders, <<"tokenize">>)

-----------------------------------------------------------------------------
(* The scripts of the model, as the Elements parse gives for them.         *)

G1(a) == GroupingE(<<a>>)
G2(a, b) == GroupingE(<<a, b>>)
G3(a, b, c) == GroupingE(<<a, b, c>>)
G4(a, b, c, d) == GroupingE(<<a, b, c, d>>)
Lam(p, body) == LambdaE(p, None, None, body)

Nx == <<"x">>
Ny == <<"y">>
Nz == <<"z">>
Nf == <<"f">>
Ng == <<"g">>
Nr == <<"r">>
Nu == <<"u">>
Fa == <<"a">>
Fb == <<"b">>
Fc == <<"c">>
Fh == <<"h">>
Dot(a, b) == a \o <<".">> \o b

\* what the host binds before it runs scripts: f = \x y -> x and the
\* record r = {a = {b = 1} h = <host value>}
UserBindings ==
    <<[name |-> Nf,
       value |-> LambdaV(Nx, None, None, Lam(Ny, G1(NameE(Nx))))],
      [name |-> Nr,
       value |-> RecordV((Fa :> RecordV(Fb :> IntV(1))) @@ (Fh :> HostValueV(HelloText)))]>>

\* an iteration order of the field names, for scripts without record literals
FieldNames == <<Fa, Fb, Fc, Fh>>

True == BooleanE(TRUE)
False == BooleanE(FALSE)
AndTT == G3(NameE(BoolAnd), True, True)
NotT == G2(NameE(BoolNot), True)

NameScripts ==
    <<Nx, Nf, Nr, Nu, BoolAnd, Dot(Nr, Fa), Dot(Nr, Fc), Dot(Nr, Fh),
      Dot(Dot(Nr, Fa), Fb), Dot(Dot(Nr, Fa), Fc), Dot(Dot(Dot(Nr, Fa), Fb), Fc)>>

\* argument terms: literals, a nested call of a host function, an unbound name
Args == <<True, False, AndTT, NameE(Nu)>>

ArgPairs ==
    <<<<True, True>>, <<True, False>>, <<False, True>>, <<False, False>>,
      <<False, AndTT>>, <<AndTT, False>>, <<NameE(Nu), True>>, <<True, NameE(Nu)>>>>

ArgTriples == <<<<True, True, True>>, <<True, False, True>>>>

\* heads of an application: a name, an inline lambda, a literal, a
\* parenthesised application
Heads ==
    <<NameE(BoolAnd), NameE(BoolNot), NameE(Nf), NameE(Dot(Dot(Nr, Fa), Fb)),
      G1(Lam(Nx, Lam(Ny, G1(NameE(Nx))))), G1(Lam(Nx, G1(IntE(5)))), IntE(5),
      NotT, G2(NameE(Nf), True), G2(NameE(BoolAnd), True)>>

LetScripts ==
    <<LetE(<<Decl(Nx, G1(IntE(5)))>>, G1(NameE(Nx))),
      LetE(<<Decl(Nx, G1(True)), Decl(Ny, G2(NameE(BoolAnd), NameE(Nx)))>>,
           G2(NameE(Ny), NameE(Nx))),
      LetE(<<Decl(Nx, G1(IntE(5))), Decl(Ny, G1(NameE(Nx)))>>, G1(NameE(Ny))),
      LetE(<<Decl(Nx, G1(True)),
             Decl(Ny, LetE(<<Decl(Nz, G2(NameE(BoolNot), NameE(Nx)))>>,
                           G3(NameE(BoolAnd), NameE(Nx), NameE(Nz))))>>,
           G1(NameE(Ny))),
      LetE(<<Decl(Nx, G1(NameE(Nu)))>>, G1(NameE(Nx))),
      LetE(<<Decl(Nx, G1(IntE(5)))>>, G1(NameE(Nu))),
      LetE(<<Decl(Ng, G2(NameE(Nf), True))>>, G2(NameE(Ng), False)),
      LetE(<<Decl(Nx, G1(False)), Decl(Nx, G2(NameE(BoolNot), NameE(Nx)))>>,
           G1(NameE(Nx)))>>

Conds ==
    <<True, False, IntE(5), NameE(Nu), NotT, NameE(Nf), NameE(Dot(Nr, Fh)),
      NothingE, ListE(<< >>), StringE(<<"a">>)>>

Branches ==
    <<IntE(1), NameE(Nu), LetE(<<Decl(Nz, G1(IntE(2)))>>, G1(NameE(Nz))),
      G2(NameE(BoolNot), False)>>

BranchPairs == <<<<1, 2>>, <<2, 1>>, <<1, 3>>, <<3, 1>>, <<4, 2>>, <<3, 4>>, <<1, 1>>>>

\* the characters of the string literals, and the literals: the texts
\* between quotes of at most MaxStrLen characters that the lexer reads as
\* one string
Chars == <<"a", "n", Backslash, Quote, "\n", "\r">>

RECURSIVE Texts(_)
Texts(n) ==
    IF n = 0 THEN {<< >>}
    ELSE Texts(n - 1) \cup
         {Append(t, Chars[c]) : t \in {u \in Texts(n - 1) : Len(u) = n - 1},
                                c \in DOMAIN Chars}

StringLiterals ==
    {t \in Texts(MaxStrLen) :
        LET tok == string_token(<<Quote>> \o t \o <<Quote>>)
        IN  tok.ok /\ tok.s = t}

\* the terms of the groupings given to translate, and those groupings
Terms == <<False, True, NameE(BoolNot), NameE(BoolAnd), G2(NameE(BoolAnd), True), ForwardE>>

RECURSIVE TermSeqs(_)
TermSeqs(n) ==
    IF n = 0 THEN {<< >>}
    ELSE TermSeqs(n - 1) \cup
         {Append(t, Terms[c]) : t \in {u \in TermSeqs(n - 1) : Len(u) = n - 1},
                                c \in DOMAIN Terms}

\* the elements of the collection literals: literals, an unbound name, a
\* let that binds z, and the name z
Items ==
    <<IntE(1), True, NameE(Nu), LetE(<<Decl(Nz, G1(IntE(2)))>>, G1(NameE(Nz))),
      NameE(Nz)>>

RECURSIVE ItemSeqs(_)
ItemSeqs(n) ==
    IF n = 0 THEN {<< >>}
    ELSE LET shorter == ItemSeqs(n - 1)
         IN  shorter \cup {Append(t, Items[c]) : t \in shorter, c \in DOMAIN Items}

\* the orders a HashSet or HashMap of n entries can iterate in
Orders(n) == {p \in [1..n -> 1..n] : \A i, j \in 1..n : p[i] = p[j] => i = j}

\* the record literal that gives the items to the first field names
RecordOf(items) == RecordE([n \in {FieldNames[i] : i \in DOMAIN items} |->
                              items[CHOOSE i \in DOMAIN items : FieldNames[i] = n]])

(* The scripts run gets as text.                                           *)

\* (a: 24)
TextRecordParens ==
    <<"(", "a", ":", " ", "2", "4", ")">>

\* {a = 24}
TextRecordBraces ==
    <<"{", "a", " ", "=", " ", "2", "4", "}">>

\* {a = 24 b = true}
TextRecordTwo ==
    <<"{", "a", " ", "=", " ", "2", "4", " ", "b", " ", "=", " ", "t", "r",
      "u", "e", "}">>

\* {a = {b = 5}}
TextRecordNested ==
    <<"{", "a", " ", "=", " ", "{", "b", " ", "=", " ", "5", "}", "}">>

\* let val x = >> in x end
TextPipeDecl ==
    <<"l", "e", "t", " ", "v", "a", "l", " ", "x", " ", "=", " ", ">", ">",
      " ", "i", "n", " ", "x", " ", "e", "n", "d">>

\* if >> then true else false end
TextPipeCond ==
    <<"i", "f", " ", ">", ">", " ", "t", "h", "e", "n", " ", "t", "r", "u",
      "e", " ", "e", "l", "s", "e", " ", "f", "a", "l", "s", "e", " ", "e",
      "n", "d">>

\* let val x = 5 in x end
TextLetX ==
    <<"l", "e", "t", " ", "v", "a", "l", " ", "x", " ", "=", " ", "5", " ",
      "i", "n", " ", "x", " ", "e", "n", "d">>

\* if x then 1 else 2 end
TextCondX ==
    <<"i", "f", " ", "x", " ", "t", "h", "e", "n", " ", "1", " ", "e", "l",
      "s", "e", " ", "2", " ", "e", "n", "d">>

\* false >> Bool.not
TextNotFalse ==
    <<"f", "a", "l", "s", "e", " ", ">", ">", " ", "B", "o", "o", "l", ".",
      "n", "o", "t">>

\* "x"
TextStringX ==
    <<Quote, "x", Quote>>

\* "(backslash)x"
TextBadEscape ==
    <<Quote, Backslash, "x", Quote>>

Samples ==
    <<TextRecordParens,
      TextRecordBraces,
      TextRecordTwo,
      TextRecordNested,
      TextPipeDecl,
      TextPipeCond,
      TextLetX,
      TextCondX,
      TextNotFalse,
      TextStringX,
      TextBadEscape>>

ScriptChars == <<"(", ")", Backslash, "-", ">", "x">>

RECURSIVE ScriptTexts(_)
ScriptTexts(n) ==
    IF n = 0 THEN {<< >>}
    ELSE LET shorter == ScriptTexts(n - 1)
         IN  shorter \cup {Append(t, ScriptChars[i]) : t \in shorter, i \in DOMAIN ScriptChars}

TransformerNames == <<<<"x">>, <<"r">>>>
Transformers == <<TrueTransformer, RejectTransformer>>
TransformerModule == <<"T">>

-----------------------------------------------------------------------------
(* The state machine. *)

Init ==
    /\ bindings = common
    /\ before = common
    /\ script = NothingE
    /\ result = [kind |-> "Ok", val |-> NothingV]
    /\ calls = << >>
    /\ evals = << >>
    /\ runs = 0
    /\ aborted = FALSE
    /\ ops = << >>
    /\ source = << >>
    /\ stages = << >>

\* the host binds a value in the current scope (Bindings::bind)
Bind(i) ==
    /\ ~aborted
    /\ runs = 0
    /\ ~read(bindings, UserBindings[i].name).some
    /\ ~bind_aborts(bindings)
    /\ bindings' = bind(bindings, UserBindings[i].name, UserBindings[i].value)
    /\ UNCHANGED <<before, script, result, calls, evals, runs, aborted, ops, source, stages>>

(* The commands of the REPL (wander-repl main.rs): a line whose first      *)
(* character after the leading white space is a colon is a command, named  *)
(* by its first word.                                                      *)

\* char::is_whitespace: the characters with the property White_Space, which
\* are U+0009 .. U+000D, the blank, U+0085 and U+00A0 (the others, U+1680,
\* U+2000 .. U+200A, U+2028, U+2029, U+202F, U+205F and U+3000, are in no
\* text of the model)
is_whitespace(c) ==
    c \in {Controls[i] : i \in 9..13} \cup {" ", "", " "}

RECURSIVE trim_start(_)
trim_start(line) ==
    IF line # << >> /\ is_whitespace(Head(line)) THEN trim_start(Tail(line)) ELSE line

RECURSIVE trim_end(_)
trim_end(line) ==
    IF line # << >> /\ is_whitespace(Last(line)) THEN trim_end(Front(line)) ELSE line

\* str::trim
trim(line) == trim_end(trim_start(line))

RECURSIVE word(_)
word(line) ==
    IF line = << >> \/ is_whitespace(Head(line)) THEN << >>
    ELSE <<Head(line)>> \o word(Tail(line))

\* parts.next() of split_whitespace: the first run of characters that are
\* not white space
first_part(input) == word(trim_start(input))

\* line.trim().starts_with(':')
is_command(line) == trim(line) # << >> /\ Head(trim(line)) = ":"

CmdStatus == <<":", "s", "t", "a", "t", "u", "s">>
CmdS == <<":", "s">>
CmdQuit == <<":", "q", "u", "i", "t">>
CmdQ == <<":", "q">>
CmdBindings == <<":", "b", "i", "n", "d", "i", "n", "g", "s">>
CmdB == <<":", "b">>
CmdEnvironment == <<":", "e", "n", "v", "i", "r", "o", "n", "m", "e", "n", "t">>
CmdE == <<":", "e">>
CmdHelp == <<":", "h", "e", "l", "p">>
CmdH == <<":", "h">>
CmdBroadcast == <<":", "b", "r", "o", "a", "d", "c", "a", "s", "t">>

\* "true": the loop goes on; "false": the loop ends; "panic": todo!()
handle_command(input) ==
    LET part == first_part(input)
    IN  CASE part \in {CmdStatus, CmdS} -> "true"
          [] part \in {CmdQuit, CmdQ} -> "false"
          [] part \in {CmdBindings, CmdB} -> "true"
          \* environment calls Bindings::environment, which is todo!()
          [] part \in {CmdEnvironment, CmdE} -> "panic"
          [] part \in {CmdHelp, CmdH} -> "true"
          [] part = CmdBroadcast -> "true"
          [] OTHER -> "panic"

\* the lines the user types that are commands
CommandLines ==
    <<CmdStatus, CmdS, CmdQuit, CmdQ, CmdBindings, CmdB, CmdEnvironment, CmdE,
      CmdHelp, CmdH, CmdBroadcast, <<":", "x">>, <<":">>, <<" ", ":", "q", " ", "x">>,
      <<":", "b", "r", "o", "a", "d", "c", "a", "s", "t", " ", "h", "i">>,
      <<"\t", ":", "q", "\t", "x">>, <<":", "h", "\n">>, <<"\r", "\f", ":", "e", "\f">>,
      <<":", "s", " ", "x">>, <<":", "q", ";", "x">>>>

\* one turn of the loop on a command: a command that answers true only
\* prints; after :quit the loop ends, and after a panic the process is gone
Command(line) ==
    /\ ~aborted
    /\ is_command(line)
    /\ aborted' = (handle_command(line) # "true")
    /\ source' = IF handle_command(line) # "true" THEN line ELSE source
    /\ UNCHANGED <<bindings, before, script, result, calls, evals, runs, ops, stages>>

\* readline answers an error (Ctrl+C, Ctrl+D, a failure): the loop ends
EndOfInput ==
    /\ ~aborted
    /\ aborted' = TRUE
    /\ UNCHANGED <<bindings, before, script, result, calls, evals, runs, ops, source, stages>>

\* one call of run with the Bindings, as a REPL turn makes it
Run(element, orders) ==
    /\ ~aborted
    /\ runs < MaxRuns
    /\ LET r == run(element, bindings, orders)
       IN  /\ script' = element
           /\ before' = bindings
           /\ result' = [kind |-> r.kind, val |-> r.val]
           /\ bindings' = BindingsOf(r.env)
           /\ calls' = r.env.calls
           /\ evals' = r.env.evals
           /\ runs' = runs + 1
           /\ aborted' = (r.kind = "Panic")
           /\ source' = << >>
           /\ stages' = <<"translate">> \o (IF translate(element).kind = "Ok" THEN <<"eval">> ELSE << >>)
           /\ UNCHANGED ops

RunName == \E i \in DOMAIN NameScripts : Run(G1(NameE(NameScripts[i])), NoOrders)

RunLet == \E i \in DOMAIN LetScripts : Run(LetScripts[i], NoOrders)

RunApplication1 ==
    \E h \in DOMAIN Heads, i \in DOMAIN Args : Run(G2(Heads[h], Args[i]), NoOrders)

RunApplication2 ==
    \E h \in DOMAIN Heads, i \in DOMAIN ArgPairs :
        Run(G3(Heads[h], ArgPairs[i][1], ArgPairs[i][2]), NoOrders)

RunApplication3 ==
    \E h \in DOMAIN Heads, i \in DOMAIN ArgTriples :
        Run(G4(Heads[h], ArgTriples[i][1], ArgTriples[i][2], ArgTriples[i][3]), NoOrders)

RunConditional ==
    \E c \in DOMAIN Conds, i \in DOMAIN BranchPairs :
        Run(G1(ConditionalE(G1(Conds[c]), G1(Branches[BranchPairs[i][1]]),
                            G1(Branches[BranchPairs[i][2]]))), NoOrders)

RunString ==
    /\ runs < MaxRuns
    /\ \E s \in StringLiterals : Run(G1(StringE(s)), NoOrders)

Next ==
    \/ \E i \in DOMAIN UserBindings : Bind(i)
    \/ \E i \in DOMAIN CommandLines : Command(CommandLines[i])
    \/ EndOfInput
    \/ RunName
    \/ RunLet
    \/ RunApplication1
    \/ RunApplication2
    \/ RunApplication3
    \/ RunConditional
    \/ RunString

Spec == Init /\ [][Next]_vars

-----------------------------------------------------------------------------
(* translate alone, as introspect calls it after parse: the Bindings are   *)
(* not touched.                                                            *)

Translate(element) ==
    /\ runs = 0
    /\ script' = element
    /\ result' = translate(element)
    /\ runs' = 1
    /\ aborted' = (translate(element).kind = "Panic")
    /\ UNCHANGED <<bindings, before, calls, evals, ops, source, stages>>

TranslateGrouping ==
    /\ runs = 0
    /\ \E t \in TermSeqs(MaxTerms) : Translate(GroupingE(t))

\* elements with a pipe where translate does not expect one: alone it
\* is an error, inside another element express unwraps the error
PipeSamples ==
    <<ForwardE,
      ListE(<<ForwardE>>),
      TupleE(<<BooleanE(TRUE), ForwardE>>),
      SetE({ForwardE}),
      RecordOf(<<ForwardE>>),
      LetE(<<Decl(Nx, ForwardE)>>, NameE(Nx)),
      ConditionalE(ForwardE, BooleanE(TRUE), BooleanE(FALSE)),
      GroupingE(<<GroupingE(<<ForwardE>>)>>),
      ListE(<<GroupingE(<<BooleanE(TRUE), ForwardE, NameE(BoolNot)>>)>>)>>

TranslatePipe ==
    /\ runs = 0
    /\ \E i \in DOMAIN PipeSamples : Translate(PipeSamples[i])

NextTranslate ==
    \/ TranslateGrouping
    \/ TranslatePipe

SpecTranslate == Init /\ [][NextTranslate]_vars

-----------------------------------------------------------------------------
(* A host that builds its Bindings itself: from Bindings::new it calls     *)
(* add_scope, remove_scope, bind and bind_host_function in any order, and  *)
(* then runs scripts that are one name.  A bind without a scope aborts     *)
(* (the unwrap of the pop).                                                *)

InitBindings ==
    /\ bindings = new
    /\ before = new
    /\ script = NothingE
    /\ result = [kind |-> "Ok", val |-> NothingV]
    /\ calls = << >>
    /\ evals = << >>
    /\ runs = 0
    /\ aborted = FALSE
    /\ ops = << >>
    /\ source = << >>
    /\ stages = << >>

HostCalls == ~aborted /\ runs = 0 /\ Len(ops) < MaxOps

\* a call of the host: b is the Bindings it leaves, also when it panics
Called(op, b, abort) ==
    /\ ops' = Append(ops, op)
    /\ bindings' = b
    /\ aborted' = abort
    /\ UNCHANGED <<before, script, result, calls, evals, runs, source, stages>>

AddScope ==
    /\ HostCalls
    /\ Called([op |-> "add_scope"], add_scope(bindings), FALSE)

RemoveScope ==
    /\ HostCalls
    /\ Called([op |-> "remove_scope"], remove_scope(bindings), FALSE)

BoundNames == <<Nx, BoolNot>>
BoundValues == <<IntV(1), IntV(2)>>

BindValue ==
    /\ HostCalls
    /\ \E n \in DOMAIN BoundNames, v \in DOMAIN BoundValues :
          Called([op |-> "bind", name |-> BoundNames[n], value |-> BoundValues[v]],
                 bind(bindings, BoundNames[n], BoundValues[v]),
                 bind_aborts(bindings))

HostFunctions == <<AndFunction, NotFunction, HelloFunction>>

BindHostFunction ==
    /\ HostCalls
    /\ \E f \in DOMAIN HostFunctions :
          Called([op |-> "bind_host_function", function |-> HostFunctions[f]],
                 bind_host_function(bindings, HostFunctions[f]),
                 bind_host_function_aborts(bindings, HostFunctions[f]))

ReadNames == <<Nx, BoolNot, BoolAnd>>

RunBoundName ==
    /\ runs < MaxRuns
    /\ \E n \in DOMAIN ReadNames : Run(G1(NameE(ReadNames[n])), NoOrders)

NextBindings ==
    \/ AddScope
    \/ RemoveScope
    \/ BindValue
    \/ BindHostFunction
    \/ RunBoundName

SpecBindings == InitBindings /\ [][NextBindings]_vars

-----------------------------------------------------------------------------
(* The state machine of run on collection literals: one run of a list, a   *)
(* tuple, a set or a record, the HashSet and the HashMap iterating in any  *)
(* order.                                                                  *)

\* the state after translate and eval answered r for the element
Evaluated(element, r) ==
    /\ script' = element
    /\ before' = bindings
    /\ result' = [kind |-> r.kind, val |-> r.val]
    /\ bindings' = BindingsOf(r.env)
    /\ calls' = r.env.calls
    /\ evals' = r.env.evals
    /\ runs' = runs + 1
    /\ aborted' = (r.kind = "Panic")
    /\ source' = << >>
    /\ stages' = <<"translate">>
                  \o (IF translate(element).kind = "Ok" THEN <<"eval">> ELSE << >>)
    /\ UNCHANGED ops

RunOrdered(element, orders) ==
    Evaluated(element, run(element, bindings, orders))

RunList ==
    /\ runs = 0
    /\ \E items \in ItemSeqs(MaxItems) : RunOrdered(ListE(items), NoOrders)

RunTuple ==
    /\ runs = 0
    /\ \E items \in ItemSeqs(MaxItems) : RunOrdered(TupleE(items), NoOrders)

RunSet ==
    /\ runs = 0
    /\ \E items \in ItemSeqs(MaxItems), p \in Orders(MaxItems) :
          RunOrdered(SetE(distinct(items)), <<p>>)

RunRecord ==
    /\ runs = 0
    /\ \E items \in ItemSeqs(MaxItems), p \in Orders(MaxItems) :
          RunOrdered(RecordOf(items), <<p>>)

\* let val name = 1 in name end, which leaves the name bound, and the name
Binder(name) == LetE(<<Decl(name, G1(IntE(1)))>>, G1(NameE(name)))
BinderAndName(name) == <<Binder(name), NameE(name)>>

\* collections in collections: each HashMap and HashSet with its own order
NestedSamples ==
    <<ListE(<<RecordOf(BinderAndName(Ny)), RecordOf(BinderAndName(Nz))>>),
      ListE(<<SetE(distinct(BinderAndName(Ny))), SetE(distinct(BinderAndName(Nz)))>>),
      RecordOf(<<RecordOf(<<IntE(1), IntE(2)>>), IntE(3)>>),
      SetE({RecordOf(BinderAndName(Ny)), NameE(Nz)})>>

\* the orders the collections of a sample can iterate in
SampleOrders == [1..MaxNested -> Orders(MaxNested)]

RunNested ==
    /\ runs = 0
    /\ \E i \in DOMAIN NestedSamples, orders \in SampleOrders :
          RunOrdered(NestedSamples[i], orders)

\* a collection that translate does not pass on to eval
RunPipe ==
    /\ runs = 0
    /\ \E i \in DOMAIN PipeSamples : RunOrdered(PipeSamples[i], NoOrders)

NextCollections ==
    \/ RunList
    \/ RunTuple
    \/ RunSet
    \/ RunRecord
    \/ RunNested
    \/ RunPipe

SpecCollections == Init /\ [][NextCollections]_vars

-----------------------------------------------------------------------------
(* The state machine of run on text: a host binds token transformers and   *)
(* runs one script.                                                        *)

BindTokenTransformer ==
    /\ runs = 0
    /\ \E i \in DOMAIN Transformers :
          /\ bindings' = bind_token_transformer(bindings, TransformerModule,
                              TransformerNames[i], Transformers[i])
          /\ before' = bindings'
          /\ UNCHANGED <<script, result, calls, evals, runs, aborted, ops, source, stages>>

\* the state after run answered r for the script
Answered(text, r) ==
    /\ source' = text
    /\ stages' = r.stages
    /\ script' = NothingE
    /\ before' = bindings
    /\ result' = [kind |-> r.kind, val |-> r.val]
    /\ bindings' = BindingsOf(r.env)
    /\ calls' = r.env.calls
    /\ evals' = r.env.evals
    /\ runs' = runs + 1
    /\ aborted' = (r.kind = "Panic")
    /\ UNCHANGED ops

\* one call of run with a script and the Bindings
RunScript(text, orders) == Answered(text, run_script(text, bindings, orders))

RunText ==
    /\ runs = 0
    /\ \E text \in ScriptTexts(MaxScriptLen) : RunScript(text, NoOrders)

RunSample ==
    /\ runs = 0
    /\ \E i \in DOMAIN Samples, orders \in SampleOrders : RunScript(Samples[i], orders)

NextScript ==
    \/ BindTokenTransformer
    \/ RunText
    \/ RunSample

SpecScript == Init /\ [][NextScript]_vars

-----------------------------------------------------------------------------
(* Applications of a function the script names: a lambda a let binds to g, *)
(* or a host function the host bound, on Bindings that start as common     *)
(* with the two hello functions.                                           *)

InitResults ==
    /\ bindings = bind_host_function(bind_host_function(common, HelloToFunction),
                                     HelloBothFunction)
    /\ before = bindings
    /\ script = NothingE
    /\ result = [kind |-> "Ok", val |-> NothingV]
    /\ calls = << >>
    /\ evals = << >>
    /\ runs = 0
    /\ aborted = FALSE
    /\ ops = << >>
    /\ source = << >>
    /\ stages = << >>

\* let val g = \x -> body in g argument end
NamedCall(body, argument) ==
    LetE(<<Decl(Ng, G1(Lam(Nx, G1(body))))>>, G2(NameE(Ng), argument))

\* a string literal alone, in a list, in a tuple
Wraps(s) == <<StringE(s), ListE(<<StringE(s)>>), TupleE(<<IntE(1), StringE(s)>>)>>

PlainArgs == <<IntE(5), True, NothingE, ListE(<<IntE(1), True>>), Lam(Ny, G1(NameE(Ny)))>>

\* g is the identity, applied to a string literal
RunIdentity ==
    /\ runs = 0
    /\ \E s \in StringLiterals, w \in 1..3 :
          RunOrdered(NamedCall(NameE(Nx), Wraps(s)[w]), NoOrders)

\* g answers a string literal whatever it is applied to
RunConstant ==
    /\ runs = 0
    /\ \E s \in StringLiterals, i \in DOMAIN PlainArgs :
          RunOrdered(NamedCall(StringE(s), PlainArgs[i]), NoOrders)

\* g is the identity, applied to a value that is no string
RunPlain ==
    /\ runs = 0
    /\ \E i \in DOMAIN PlainArgs :
          RunOrdered(NamedCall(NameE(Nx), PlainArgs[i]), NoOrders)

\* the hello functions applied by name to as many arguments as they declare
RunHello ==
    /\ runs = 0
    /\ \/ \E i \in DOMAIN PlainArgs :
             RunOrdered(G2(NameE(HelloTo), PlainArgs[i]), NoOrders)
       \/ \E i, j \in DOMAIN PlainArgs :
             RunOrdered(G3(NameE(HelloBoth), PlainArgs[i], PlainArgs[j]), NoOrders)

\* what the statement functions and List.at are applied to
Statements ==
    <<TupleE(<<IntE(1), True, NothingE>>), ListE(<<IntE(1), True, NothingE>>),
      TupleE(<<IntE(1)>>)>>
Indexes == <<IntE(0 - 1), IntE(0), IntE(2), IntE(3)>>

\* the other functions of common applied by name to as many arguments as
\* they declare
RunPrelude ==
    /\ runs = 0
    /\ \/ \E f \in {CoreEq, AssertAssertEq}, i, j \in DOMAIN PlainArgs :
             RunOrdered(G3(NameE(f), PlainArgs[i], PlainArgs[j]), NoOrders)
       \/ \E f \in {StatementEntity, StatementAttribute, StatementValue},
              i \in DOMAIN Statements :
             RunOrdered(G2(NameE(f), Statements[i]), NoOrders)
       \/ \E i \in DOMAIN Indexes :
             RunOrdered(G3(NameE(ListAt), Indexes[i], Statements[2]), NoOrders)

\* a host function applied by name to one argument more than it declares:
\* Statement.entity '((\y -> y) 1 2) true, List.at 0 [\x -> \y -> y] true,
\* and calls whose result with the declared arguments is no function
Surplus ==
    <<G3(NameE(StatementEntity),
         TupleE(<<G1(Lam(Ny, G1(NameE(Ny)))), IntE(1), IntE(2)>>), True),
      G4(NameE(ListAt), IntE(0), ListE(<<Lam(Nx, G1(Lam(Ny, G1(NameE(Ny)))))>>), True),
      G3(NameE(StatementEntity), Statements[1], True),
      G4(NameE(ListAt), IntE(0), Statements[2], True),
      G4(NameE(CoreEq), True, True, True)>>

RunSurplus ==
    /\ runs = 0
    /\ \E i \in DOMAIN Surplus : RunOrdered(Surplus[i], NoOrders)

NextResults ==
    \/ RunIdentity
    \/ RunConstant
    \/ RunPlain
    \/ RunHello
    \/ RunPrelude
    \/ RunSurplus

SpecResults == InitResults /\ [][NextResults]_vars

-----------------------------------------------------------------------------
(* parse alone, on the tokens it is handed. *)

MaxTokens == 4

TokenAlphabet ==
    <<Tok("OpenParen"), Tok("CloseParen"), Tok("Lambda"), Tok("Arrow"),
      NameT(Nx), Tok("If"), Tok("Then"), Tok("Let"), Tok("In"), Tok("End")>>

\* the tokens of tuples, sets and records
BracketAlphabet ==
    <<Tok("SingleQuote"), Tok("Hash"), Tok("OpenParen"), Tok("CloseParen"),
      Tok("OpenBrace"), Tok("CloseBrace"), Tok("EqualSign"), NameT(Nx)>>

\* the tokens of a let and its declarations
LetAlphabet ==
    <<Tok("Let"), Tok("Val"), NameT(Nx), Tok("EqualSign"), Tok("In"), Tok("End")>>

RECURSIVE SeqsOf(_, _)
SeqsOf(alphabet, n) ==
    IF n = 0 THEN {<< >>}
    ELSE LET shorter == SeqsOf(alphabet, n - 1)
         IN  shorter \cup {Append(t, alphabet[i]) : t \in shorter, i \in DOMAIN alphabet}

TokenSeqs(n) == SeqsOf(TokenAlphabet, n)

\* the tokens the attempts are looked at on: those of parse alone, those of
\* tuples, sets and records, and those of a let
MaxAttempt == 3

AttemptSeqs ==
    SeqsOf(TokenAlphabet, MaxAttempt) \cup SeqsOf(BracketAlphabet, MaxAttempt)
    \cup SeqsOf(LetAlphabet, MaxAttempt)

\* if x then y else z end, and the same with one keyword missing
SampleConditional ==
    <<Tok("If"), NameT(Nx), Tok("Then"), NameT(Ny), Tok("Else"), NameT(Nz), Tok("End")>>
SampleNoThen ==
    <<Tok("If"), NameT(Nx), NameT(Ny), Tok("Else"), NameT(Nz), Tok("End")>>
SampleNoElse ==
    <<Tok("OpenSquare"), Tok("If"), NameT(Nx), Tok("Then"), NameT(Ny), NameT(Nz),
      Tok("End"), Tok("CloseSquare")>>
SampleNoEnd ==
    <<Tok("OpenParen"), Tok("If"), NameT(Nx), Tok("Then"), NameT(Ny), Tok("Else"),
      NameT(Nz), Tok("CloseParen")>>
\* [x (if y then) z]
SampleNested ==
    <<Tok("OpenSquare"), NameT(Nx), Tok("OpenParen"), Tok("If"), NameT(Ny),
      Tok("Then"), Tok("CloseParen"), NameT(Nz), Tok("CloseSquare")>>


\* \p1 ... pn -> x
LambdaOf(params) ==
    <<Tok("Lambda")>> \o [i \in DOMAIN params |-> NameT(params[i])]
    \o <<Tok("Arrow"), NameT(Nx)>>
SampleLambda1 == LambdaOf(<<Nx>>)
SampleLambda2 == LambdaOf(<<Nx, Ny>>)
SampleLambda3 == LambdaOf(<<Nx, Ny, Nz>>)
\* \x -> \y -> x
SampleLambdaNested == <<Tok("Lambda"), NameT(Nx), Tok("Arrow")>> \o LambdaOf(<<Ny>>)

\* val name = n
ValTokens(name, n) == <<Tok("Val"), NameT(name), Tok("EqualSign"), IntT(n)>>
\* let val x = 1, let val x = 1 val y = 2, and the first with in x, with
\* in x end, between brackets, between parentheses, before >> z
SampleLet1 == <<Tok("Let")>> \o ValTokens(Nx, 1)
SampleLet2 == <<Tok("Let")>> \o ValTokens(Nx, 1) \o ValTokens(Ny, 2)
SampleLetNoEnd == SampleLet1 \o <<Tok("In"), NameT(Nx)>>
SampleLetEnd == SampleLet1 \o <<Tok("In"), NameT(Nx), Tok("End")>>
SampleLetInList == <<Tok("OpenSquare")>> \o SampleLet1 \o <<Tok("CloseSquare")>>
SampleLetInParens == <<Tok("OpenParen")>> \o SampleLet1 \o <<Tok("CloseParen")>>
SampleLetThenPipe == SampleLet1 \o <<Tok("Pipe"), NameT(Nz)>>
\* let val x = 1 if y
SampleLetThenIf == SampleLet1 \o <<Tok("If"), NameT(Ny)>>

\* a tuple, a set and a record that are not closed, a record whose field
\* has no equal sign, and each of the three between brackets before z:
\* '(x y   #(x y   {x = y   {x y}   ['(x z]   [#(x z]   [{x = y z]
SampleTupleOpen == <<Tok("SingleQuote"), Tok("OpenParen"), NameT(Nx), NameT(Ny)>>
SampleSetOpen == <<Tok("Hash"), Tok("OpenParen"), NameT(Nx), NameT(Ny)>>
SampleRecordOpen == <<Tok("OpenBrace"), NameT(Nx), Tok("EqualSign"), NameT(Ny)>>
SampleRecordNoEqual == <<Tok("OpenBrace"), NameT(Nx), NameT(Ny), Tok("CloseBrace")>>
SampleTupleInList ==
    <<Tok("OpenSquare"), Tok("SingleQuote"), Tok("OpenParen"), NameT(Nx), NameT(Nz),
      Tok("CloseSquare")>>
SampleSetInList ==
    <<Tok("OpenSquare"), Tok("Hash"), Tok("OpenParen"), NameT(Nx), NameT(Nz),
      Tok("CloseSquare")>>
SampleRecordInList ==
    <<Tok("OpenSquare")>> \o SampleRecordOpen \o <<NameT(Nz), Tok("CloseSquare")>>
\* \x : -> y, a lambda whose parameter has a colon and no tag
SampleLambdaNoTag == <<Tok("Lambda"), NameT(Nx), Tok("Colon"), Tok("Arrow"), NameT(Ny)>>
\* [x y and (x y, a list and a group that are not closed
SampleListOpen == <<Tok("OpenSquare"), NameT(Nx), NameT(Ny)>>
SampleGroupOpen == <<Tok("OpenParen"), NameT(Nx), NameT(Ny)>>

TokenSamples ==
    <<SampleConditional,
      SampleNoThen,
      SampleNoElse,
      SampleNoEnd,
      SampleNested,
      SampleLambda1,
      SampleLambda2,
      SampleLambda3,
      SampleLambdaNested,
      SampleLet1,
      SampleLet2,
      SampleLetNoEnd,
      SampleLetEnd,
      SampleLetInList,
      SampleLetInParens,
      SampleLetThenPipe,
      SampleLetThenIf,
      SampleTupleOpen,
      SampleSetOpen,
      SampleRecordOpen,
      SampleRecordNoEqual,
      SampleTupleInList,
      SampleSetInList,
      SampleRecordInList,
      SampleLambdaNoTag,
      SampleListOpen,
      SampleGroupOpen>>

\* one call of parse with the tokens
Parsed(given, r) ==
    /\ source' = given
    /\ stages' = <<"parse">>
    /\ script' = IF r.kind = "Ok" THEN r.val ELSE NothingE
    /\ result' = r
    /\ before' = bindings
    /\ runs' = runs + 1
    /\ aborted' = (r.kind = "Panic")
    /\ UNCHANGED <<bindings, calls, evals, ops>>

ParseTokens ==
    /\ runs = 0
    /\ \E given \in TokenSeqs(MaxTokens) : Parsed(given, parse(given))

ParseSample ==
    /\ runs = 0
    /\ \E i \in DOMAIN TokenSamples : Parsed(TokenSamples[i], parse(TokenSamples[i]))

NextParse ==
    \/ ParseTokens
    \/ ParseSample

SpecParse == Init /\ [][NextParse]_vars

ParseAttempt ==
    /\ runs = 0
    /\ \E given \in AttemptSeqs : Parsed(given, parse(given))

NextAttempt ==
    \/ ParseAttempt
    \/ ParseSample

SpecAttempt == Init /\ [][NextAttempt]_vars

-----------------------------------------------------------------------------
(* What the claims speak of. *)

\* the Expression the last run evaluated, and the environment it started in
X == translate(script).val
Start == Env(before, NoOrders)
Ran == runs > 0 /\ translate(script).kind = "Ok"
Outcome(r) == [kind |-> r.kind, val |-> r.val]

IsApplication == Ran /\ X.tag = "Application" /\ Len(X.elems) >= 2
AppHead == X.elems[1]
AppArgs == Tail(X.elems)

\* the values of argument expressions evaluated one after the other
ArgValues(args) == eval_elems(args, 1, << >>, Start)

\* the number of parameters of a Lambda value, and the Lambda left after
\* k of them are supplied
RECURSIVE Arity(_)
Arity(v) ==
    IF v.tag # "Lambda" THEN 0
    ELSE LET x == express(v.body)
         IN  IF x.kind = "Ok" THEN 1 + Arity(x.val) ELSE 1

RECURSIVE Peel(_, _)
Peel(v, k) == IF k = 0 THEN v ELSE Peel(express(v.body).val, k - 1)

\* the head names a registered host function and is bound to its lambda chain
IsHostHead ==
    /\ IsApplication
    /\ AppHead.tag = "Name"
    /\ read_host_function(before, AppHead.name).some
    /\ read(before, AppHead.name) =
          Some(host_lambda(AppHead.name, before.host_functions[AppHead.name].parameters, 1))

HostParams == before.host_functions[AppHead.name].parameters

-----------------------------------------------------------------------------
(* C1: scope discipline.  After a let has been evaluated successfully on   *)
(* a Bindings in which the names it declares were unbound, a reference to  *)
(* one of those names against the same Bindings fails with the             *)
(* unbound-name error: the let's names are not visible after the let.      *)

LetNames == {script.decls[i].name : i \in DOMAIN script.decls}

Reference(name) == run(G1(NameE(name)), bindings, NoOrders)

C1_LetScopePopped ==
    (/\ Ran
     /\ script.tag = "Let"
     /\ result.kind = "Ok"
     /\ \A n \in LetNames : ~read(before, n).some)
    => \A n \in LetNames :
          /\ Reference(n).kind = "Err"
          /\ Reference(n).val.msg = MsgLookup

(* C2: a host function applied by name to as many argument expressions as  *)
(* it declares parameters is run with exactly the values of those          *)
(* argument expressions, in order, also when an argument is itself a call  *)
(* of a host function with the same parameter names.                       *)

C2_HostReceivesArguments ==
    (/\ IsHostHead
     /\ Len(AppArgs) = Len(HostParams)
     /\ ArgValues(AppArgs).kind = "Ok")
    => /\ calls # << >>
       /\ Last(calls) = [name |-> AppHead.name, args |-> ArgValues(AppArgs).val]

(* C3: partial application.  An application that supplies fewer arguments  *)
(* than the function at its head has parameters returns the remaining      *)
(* Lambda (parameter, types and body) unevaluated, for a head that is a    *)
(* name, an inline lambda or a parenthesised application.                  *)

HeadValue == eval(AppHead, Start)

C3_PartialApplicationReturnsLambda ==
    (/\ IsApplication
     /\ HeadValue.kind = "Ok"
     /\ Len(AppArgs) < Arity(HeadValue.val)
     /\ ArgValues(AppArgs).kind = "Ok")
    => result = [kind |-> "Ok", val |-> Peel(HeadValue.val, Len(AppArgs))]

(* C4: currying equivalence.  For a two-parameter function f and           *)
(* arguments a and b, `f a b`, `(f a) b` and `let val g = f a in g b end`  *)
(* give the same result.                                                   *)

Curried == run(G2(G2(script.elems[1], script.elems[2]), script.elems[3]),
               before, NoOrders)

ViaVal == run(LetE(<<Decl(Ng, G2(script.elems[1], script.elems[2]))>>,
                   G2(NameE(Ng), script.elems[3])),
              before, NoOrders)

C4_CurryingEquivalence ==
    (/\ IsApplication
     /\ Len(AppArgs) = 2
     /\ HeadValue.kind = "Ok"
     /\ Arity(HeadValue.val) = 2)
    => /\ result = Outcome(Curried)
       /\ result = Outcome(ViaVal)

(* C5: calling a non-function.  When the head of an application, or the    *)
(* result of applying it to the arguments it takes, is not a Lambda and    *)
(* argument expressions remain, evaluation fails with the                  *)
(* invalid-function-call error, whatever the form of the head.             *)

\* the application of the head to the first k arguments
Saturated(k) == run(GroupingE(SubSeq(script.elems, 1, k + 1)), before, NoOrders)

HeadArity == IF HeadValue.kind = "Ok" THEN Arity(HeadValue.val) ELSE 0

C5_NonFunctionCallFails ==
    (/\ IsApplication
     /\ HeadValue.kind = "Ok"
     /\ HeadArity < Len(AppArgs)
     /\ Saturated(HeadArity).kind = "Ok"
     /\ Saturated(HeadArity).val.tag # "Lambda")
    => /\ result.kind = "Err"
       /\ result.val.msg \in {MsgInvalidCall, MsgExpectedLambda}

(* C6: arity.  A host function applied by name to more argument            *)
(* expressions than it declares parameters returns an error, whatever the  *)
(* host function and whatever it answers for the arguments it declares:    *)
(* neither that answer nor a later one is the result.                      *)

C6_HostArityError ==
    (IsHostHead /\ Len(AppArgs) > Len(HostParams))
    => result.kind = "Err"

(* C7: short-circuit conditional.  Evaluating a conditional whose          *)
(* condition is true is evaluating the condition once and then the first   *)
(* branch, and nothing else: result, bindings, host function runs and the  *)
(* sequence of evaluated expressions are those of the condition followed   *)
(* by the first branch; symmetrically for false and the second branch.     *)

IsConditional == Ran /\ X.tag = "Conditional"
CondResult == eval(X.c, [Start EXCEPT !.evals = <<X>>])
Taken == IF CondResult.val = BoolV(TRUE) THEN X.t ELSE X.e
Untaken == IF CondResult.val = BoolV(TRUE) THEN X.e ELSE X.t
TakenResult == eval(Taken, CondResult.env)

SameAs(r) ==
    /\ result = Outcome(r)
    /\ bindings = BindingsOf(r.env)
    /\ calls = r.env.calls
    /\ evals = r.env.evals

C7_ConditionalShortCircuit ==
    (/\ IsConditional
     /\ CondResult.kind = "Ok"
     /\ CondResult.val.tag = "Bool")
    => SameAs(TakenResult)

\* the untaken branch is an unbound name and would fail; the taken one gives 1
C7_Witness ==
    /\ IsConditional
    /\ CondResult.kind = "Ok"
    /\ CondResult.val.tag = "Bool"
    /\ Untaken = NameE(Nu)
    /\ eval(Untaken, CondResult.env).kind = "Err"
    /\ result = [kind |-> "Ok", val |-> IntV(1)]

(* C8: conditional guard type.  If the condition evaluates to a value      *)
(* that is not a boolean, evaluation returns the guard error and neither   *)
(* branch is evaluated; if evaluating the condition fails, that error is   *)
(* returned.                                                               *)

C8_ConditionalGuardType ==
    IsConditional =>
       /\ CondResult.kind # "Ok" => SameAs(CondResult)
       /\ (CondResult.kind = "Ok" /\ CondResult.val.tag # "Bool")
             => SameAs(Err(MsgCondBool, CondResult.env))

C8_Witness ==
    /\ IsConditional
    /\ CondResult.kind = "Ok"
    /\ CondResult.val.tag = "HostValue"
    /\ result = Outcome(Err(MsgCondBool, Start))
    /\ evals = <<X, X.c>>

(* C9: sequential let.  The declarations of a let are evaluated in source  *)
(* order and each value is bound before the next declaration is            *)
(* evaluated: a let with several declarations gives the result, the        *)
(* bindings and the host function runs of the lets with one declaration    *)
(* each, nested in that order.                                             *)

RECURSIVE Nest(_, _, _)
Nest(decls, idx, body) ==
    IF idx > Len(decls) THEN body
    ELSE LetE(<<decls[idx]>>, Nest(decls, idx + 1, body))

IsLet == Ran /\ X.tag = "Let"
Nested == eval(Nest(X.decls, 1, X.body), Start)

C9_SequentialLet ==
    IsLet =>
       /\ result = Outcome(Nested)
       /\ bindings = BindingsOf(Nested.env)
       /\ calls = Nested.env.calls

\* `let val x = true val y = Bool.and x in y x end`: y is the partial
\* application, and the body runs Bool.and with x twice
C9_Witness ==
    /\ IsLet
    /\ Len(X.decls) = 2
    /\ script = LetScripts[2]
    /\ result = [kind |-> "Ok", val |-> BoolV(TRUE)]
    /\ calls = <<[name |-> BoolAnd, args |-> <<BoolV(TRUE), BoolV(TRUE)>>]>>
    /\ read(bindings, Ny) = Some(LambdaV(PRight, Type("Boolean"), Type("Any"),
                                         HostFunctionE(BoolAnd)))

(* C10: missing record field.  Resolving a dotted name whose first         *)
(* segment is bound to a record returns the field-not-found error, and     *)
(* does not abort, at the first segment that is absent, at every depth.    *)

\* the index of the first segment absent from the nested records, 0 if none
RECURSIVE FirstAbsent(_, _, _)
FirstAbsent(value, fields, idx) ==
    IF idx > Len(fields) \/ value.tag # "Record" THEN 0
    ELSE IF fields[idx] \notin DOMAIN value.fields THEN idx
    ELSE FirstAbsent(value.fields[fields[idx]], fields, idx + 1)

IsFieldAccess ==
    /\ Ran
    /\ X.tag = "Name"
    /\ ~read(before, X.name).some
    /\ ~read_host_function(before, X.name).some
    /\ Len(split(X.name)) >= 2
    /\ read(before, Head(split(X.name))).some
    /\ read(before, Head(split(X.name))).v.tag = "Record"

C10_MissingFieldIsError ==
    (/\ IsFieldAccess
     /\ FirstAbsent(read(before, Head(split(X.name))).v, Tail(split(X.name)), 1) >= 1)
    => result = Outcome(Err(MsgReadField, Start))

(* C11: string literal round-trip.  When a string literal has evaluated    *)
(* to the string v, the text write_string renders for v is read as one     *)
(* string literal and evaluating that literal gives v again.               *)

IsStringLiteral == Ran /\ X.tag = "String" /\ result.kind = "Ok"
Rendered == write_string(result.val.s)

\* the rendered text without the quotes write_string put around it
Unquoted == SubSeq(Rendered, 2, Len(Rendered) - 1)
Reread == run(G1(StringE(Unquoted)), bindings, NoOrders)

C11_StringRoundTrip == IsStringLiteral => Outcome(Reread) = result

(* C13: single forward.  A grouping L >> R with one forward marker and     *)
(* terms on both sides is translated to the application of R's terms       *)
(* followed by L as the last argument: L as it is when it is one term,     *)
(* as one nested application when it is several.                           *)

Translated == runs > 0 /\ script.tag = "Grouping"
Markers == {i \in DOMAIN script.elems : script.elems[i] = ForwardE}
Marker == CHOOSE i \in Markers : TRUE

\* the Expressions of terms, and the argument a run of terms becomes
TermsOf(terms) == [i \in DOMAIN terms |-> express(terms[i]).val]
Argument(terms) ==
    IF Len(terms) = 1 THEN express(terms[1]).val ELSE ApplicationX(TermsOf(terms))

LeftOf(i) == SubSeq(script.elems, 1, i - 1)
RightOf(i) == SubSeq(script.elems, i + 1, Len(script.elems))

C13_SingleForward ==
    (/\ Translated
     /\ Cardinality(Markers) = 1
     /\ 1 < Marker
     /\ Marker < Len(script.elems))
    => result = XOk(ApplicationX(TermsOf(RightOf(Marker))
                                 \o <<Argument(LeftOf(Marker))>>))

\* `Bool.not false >> Bool.and true` becomes Bool.and true (Bool.not false)
C13_Witness ==
    /\ Translated
    /\ script.elems = <<NameE(BoolNot), False, ForwardE, NameE(BoolAnd), True>>
    /\ result = XOk(ApplicationX(<<NameE(BoolAnd), True,
                                   ApplicationX(<<NameE(BoolNot), False>>)>>))

(* C14: chained forwards.  A grouping with several forward markers, each   *)
(* between terms, is resolved left to right: a >> f1 >> ... >> fn is       *)
(* translated to fn (... (f1 a)), each marker nesting what is accumulated  *)
(* on its left as the last argument of the terms on its right.             *)

\* the runs of terms between the markers, in order
RECURSIVE Segments(_, _, _)
Segments(elems, idx, cur) ==
    IF idx > Len(elems) THEN <<cur>>
    ELSE IF elems[idx] = ForwardE
         THEN <<cur>> \o Segments(elems, idx + 1, << >>)
         ELSE Segments(elems, idx + 1, Append(cur, elems[idx]))

RECURSIVE Chain(_, _, _)
Chain(segments, idx, acc) ==
    IF idx > Len(segments) THEN acc
    ELSE Chain(segments, idx + 1, ApplicationX(TermsOf(segments[idx]) \o <<acc>>))

C14_ChainedForwards ==
    LET segments == Segments(script.elems, 1, << >>)
    IN  (/\ Translated
         /\ Cardinality(Markers) >= 2
         /\ \A i \in DOMAIN segments : segments[i] # << >>)
        => result = XOk(Chain(segments, 2, Argument(segments[1])))

(* C15: malformed pipe.  Translating a grouping whose last element is a    *)
(* forward marker returns an error.                                        *)

C15_TrailingForwardIsError ==
    (/\ Translated
     /\ script.elems # << >>
     /\ script.elems[Len(script.elems)] = ForwardE)
    => result.kind = "Err"

(* C16: Bindings.read.  After any sequence of add_scope, remove_scope and  *)
(* bind calls, read(name) is the value of the latest bind of name whose    *)
(* scope is still on the stack, and None when there is none: an inner      *)
(* binding shadows an outer one, and the outer value is read again once    *)
(* the inner scope is removed.                                             *)

\* the calls from the latest back to the first; closed counts the
\* remove_scope calls passed whose scope has not been seen opened yet
RECURSIVE LiveBind(_, _, _, _)
LiveBind(log, idx, closed, name) ==
    IF idx = 0 THEN None
    ELSE LET c == log[idx]
         IN  CASE c.op = "remove_scope" -> LiveBind(log, idx - 1, closed + 1, name)
               [] c.op = "add_scope" ->
                     LiveBind(log, idx - 1, IF closed > 0 THEN closed - 1 ELSE 0, name)
               [] c.op = "bind" ->
                     IF closed = 0 /\ c.name = name THEN Some(c.value)
                     ELSE LiveBind(log, idx - 1, closed, name)
               [] OTHER -> LiveBind(log, idx - 1, closed, name)

OnlyScopeCalls == \A i \in DOMAIN ops : ops[i].op \in {"add_scope", "remove_scope", "bind"}

C16_ReadInnermost ==
    (~aborted /\ OnlyScopeCalls) =>
        \A n \in DOMAIN BoundNames :
            read(bindings, BoundNames[n]) = LiveBind(ops, Len(ops), 0, BoundNames[n])

\* x bound to 1, shadowed by 2 in an inner scope, and read as 1 again
\* after the inner scope is removed
C16_Witness ==
    /\ ops = <<[op |-> "bind", name |-> Nx, value |-> IntV(1)],
               [op |-> "add_scope"],
               [op |-> "bind", name |-> Nx, value |-> IntV(2)],
               [op |-> "remove_scope"]>>
    /\ read(bindings, Nx) = Some(IntV(1))
    /\ result = [kind |-> "Ok", val |-> IntV(1)]

(* C17: bind_host_function.  A call of bind_host_function(f) stores f in   *)
(* the host-function table under its name and binds that name, in scope 0  *)
(* whatever the number of scopes on the stack, to the chain of             *)
(* one-parameter lambdas, first parameter outermost, whose innermost body  *)
(* is the reference to the host function.                                  *)

RECURSIVE ChainOf(_, _)
ChainOf(f, k) ==
    [tag |-> "Lambda", p |-> f.parameters[k].name, i |-> Type(f.parameters[k].type),
     o |-> Type("Any"),
     body |-> IF k = Len(f.parameters) THEN HostFunctionE(f.name) ELSE ChainOf(f, k + 1)]

C17_HostFunctionInScopeZero ==
    (/\ ~aborted
     /\ ops # << >>
     /\ Last(ops).op = "bind_host_function")
    => LET f == Last(ops).function
       IN  /\ read_host_function(bindings, f.name) = Some(f)
           /\ Len(bindings.scopes) >= 1
           /\ f.name \in DOMAIN bindings.scopes[1]
           /\ bindings.scopes[1][f.name] = ChainOf(f, 1)

(* C18: name resolution order.  A name that is bound in no scope and is a  *)
(* key of the host-function table evaluates to a value, the reference to   *)
(* that host function: the run neither fails nor aborts.                   *)

C18_HostFunctionNameResolves ==
    (/\ Ran
     /\ X.tag = "Name"
     /\ ~read(before, X.name).some
     /\ read_host_function(before, X.name).some)
    => result.kind = "Ok"

\* the last step was a run of the text in source
RanScript == runs > 0 /\ stages # << >> /\ stages[1] = "tokenize"

(* C12: record round-trip.  The script (a: 24) evaluates to the Record     *)
(* with the single field a -> Int(24), and running the text that Display   *)
(* writes for that Record gives an equal Record.                           *)

RecordA24 == RecordV(Fa :> IntV(24))

Rerun(value) == Outcome(run_script(to_string(value, NoOrders), before, NoOrders))

C12_RecordRoundTrip ==
    (RanScript /\ source = TextRecordParens /\ DOMAIN before.token_transformers = {})
    => /\ result = [kind |-> "Ok", val |-> RecordA24]
       /\ Rerun(result.val) = result

(* C19: pipeline order and abort.  run executes tokenize_and_filter,       *)
(* transform, parse, translate and eval in this order, each stage on what  *)
(* the stage before it returned.  run stops at the first stage that does   *)
(* not return Ok and returns what that stage returned; when that stage is  *)
(* before eval the scopes of the Bindings are as they were before the      *)
(* call.                                                                   *)

Pipeline == <<"tokenize", "transform", "parse", "translate", "eval">>

\* what stage k returns on what stage k - 1 returned
RECURSIVE StageAnswer(_)
StageAnswer(k) ==
    CASE k = 1 -> tokenize_and_filter(source)
      [] k = 2 -> transform(StageAnswer(1).val, before)
      [] k = 3 -> parse(StageAnswer(2).val)
      [] k = 4 -> translate(StageAnswer(3).val)
      [] k = 5 -> Outcome(eval(StageAnswer(4).val, Env(before, NoOrders)))

\* the first stage from k on that does not return Ok, the last stage if none
RECURSIVE Stops(_)
Stops(k) ==
    IF k = Len(Pipeline) \/ StageAnswer(k).kind # "Ok" THEN k ELSE Stops(k + 1)

C19_PipelineOrder ==
    RanScript
    => LET k == Stops(1)
       IN  /\ stages = SubSeq(Pipeline, 1, k)
           /\ result = Outcome(StageAnswer(k))
           /\ (k < Len(Pipeline) => bindings.scopes = before.scopes)

\* a transformer rejected the tokens of a script that evaluates without it
C19_Witness ==
    /\ RanScript
    /\ source = TextRecordBraces
    /\ stages = <<"tokenize", "transform">>
    /\ result = [kind |-> "Err", val |-> WanderError(MsgTransform)]
    /\ bindings.scopes = before.scopes

(* C20: no abort on user input.  Whatever tokens run gives to parse, it    *)
(* returns Ok(value) or Err(message): it does not panic and reaches no     *)
(* unimplemented branch.                                                   *)

C20_NoAbortOnUserInput ==
    (RanScript /\ Len(stages) >= 3) => result.kind \in {"Ok", "Err"}

(* C21: error-path scope discipline.  When the evaluation of a let or of   *)
(* an application returns an error, the Bindings expose the names and      *)
(* values they exposed before the call: no binding of the failed           *)
(* evaluation is left.                                                     *)

\* the names a Bindings exposes, each with the value read gives for it
Exposed(b) ==
    [n \in UNION {DOMAIN b.scopes[i] : i \in DOMAIN b.scopes} |-> read(b, n).v]

C21_ErrorLeavesNoBinding ==
    (Ran /\ result.kind = "Err" /\ X.tag \in {"Let", "Application"})
    => Exposed(bindings) = Exposed(before)

(* C22: fail-fast collections.  A List or a Tuple evaluates its elements   *)
(* in source order and holds their values in that order.  A List, Tuple,   *)
(* Set or Record returns the error of the first element whose evaluation   *)
(* fails, in the order it iterates: no element after it is evaluated and   *)
(* no partial collection is returned.                                      *)

\* the answer of eval for the k-th of the items taken in the order p, each
\* evaluated in the environment the one before it left; the answer of the
\* first failure from there on
RECURSIVE Along(_, _, _, _)
Along(items, p, k, orders) ==
    IF k = 0 THEN Ok(NothingV, [Env(before, orders) EXCEPT !.evals = <<X>>])
    ELSE LET prev == Along(items, p, k - 1, orders)
         IN  IF prev.kind # "Ok" THEN prev ELSE eval(items[p[k]], prev.env)

\* the run evaluated the items in the order p and nothing after a failure,
\* and answered the collection or the failure
FailFast(items, p, collection, orders) ==
    LET last == Along(items, p, Len(p), orders)
    IN  /\ evals = last.env.evals
        /\ bindings = BindingsOf(last.env)
        /\ result = IF last.kind = "Ok" THEN [kind |-> "Ok", val |-> collection]
                    ELSE Outcome(last)

SourceOrder(n) == [i \in 1..n |-> i]

\* the orders the collections inside the elements can iterate in
InnerOrders == SampleOrders \cup {NoOrders}

C22_FailFastCollections ==
    Ran =>
    /\ X.tag \in {"List", "Tuple"} =>
          LET p == SourceOrder(Len(X.elems))
          IN  \E orders \in InnerOrders :
                 FailFast(X.elems, p,
                          [tag |-> X.tag,
                           elems |-> [k \in DOMAIN p |-> Along(X.elems, p, k, orders).val]],
                          orders)
    /\ X.tag = "Set" =>
          LET items == SeqOf(X.members)
          IN  \E p \in Orders(Len(items)), orders \in InnerOrders :
                 FailFast(items, p,
                          SetV({Along(items, p, k, orders).val : k \in DOMAIN p}), orders)
    /\ X.tag = "Record" =>
          LET names == SeqOf(DOMAIN X.fields)
          IN  \E o \in Orders(Len(names)), orders \in InnerOrders :
                 LET p == [i \in DOMAIN names |-> names[o[i]]]
                 IN  FailFast(X.fields, p,
                              RecordV([n \in DOMAIN X.fields |->
                                  Along(X.fields, p,
                                        CHOOSE k \in DOMAIN p : p[k] = n, orders).val]),
                              orders)

\* a list whose second element fails: the first was evaluated, the third not
C22_Witness ==
    /\ Ran
    /\ X.tag = "List"
    /\ Len(X.elems) = 3
    /\ result.kind = "Err"
    /\ bindings # before
    /\ \E i \in DOMAIN evals : evals[i] = X.elems[1]
    /\ \A i \in DOMAIN evals : evals[i] # X.elems[3]


-----------------------------------------------------------------------------
(* The parser (SpecParse, SpecAttempt). *)

ParsedTokens == runs > 0 /\ stages = <<"parse">>

Count(given, tag) == Cardinality({i \in DOMAIN given : given[i].tag = tag})

\* the tokens that leave a mark of their own in an Element: names and
\* literals, and the keyword or bracket that opens a conditional, a let or a
\* list
Marks == {"Name", "Boolean", "Int", "String", "Pipe", "If", "Let", "OpenSquare"}

RECURSIVE Kept(_)
Kept(given) ==
    IF given = << >> THEN << >>
    ELSE IF Head(given).tag \in Marks THEN <<Head(given)>> \o Kept(Tail(given))
    ELSE Kept(Tail(given))

\* the same tokens read back from an Element, in the order of the script
RECURSIVE Leaves(_)
RECURSIVE LeavesAll(_)
RECURSIVE LeavesDecls(_)
TagLeaves(tag) == IF tag.some THEN <<NameT(tag.v)>> ELSE << >>
Leaves(element) ==
    CASE element.tag = "Name" -> <<NameT(element.name)>>
      [] element.tag = "Boolean" -> <<BooleanT(element.b)>>
      [] element.tag = "Int" -> <<IntT(element.n)>>
      [] element.tag = "String" -> <<StringT(element.s)>>
      [] element.tag = "Forward" -> <<Tok("Pipe")>>
      [] element.tag = "Nothing" -> << >>
      [] element.tag \in {"Grouping", "Tuple"} -> LeavesAll(element.elems)
      [] element.tag = "List" -> <<Tok("OpenSquare")>> \o LeavesAll(element.elems)
      [] element.tag = "Conditional" ->
            <<Tok("If")>> \o Leaves(element.c) \o Leaves(element.t) \o Leaves(element.e)
      [] element.tag = "Lambda" ->
            <<NameT(element.p)>> \o TagLeaves(element.i) \o Leaves(element.body)
      [] element.tag = "Let" ->
            <<Tok("Let")>> \o LeavesDecls(element.decls) \o Leaves(element.body)
LeavesAll(elems) ==
    IF elems = << >> THEN << >> ELSE Leaves(Head(elems)) \o LeavesAll(Tail(elems))
LeavesDecls(decls) ==
    IF decls = << >> THEN << >>
    ELSE <<NameT(Head(decls).name)>> \o TagLeaves(Head(decls).tag)
         \o Leaves(Head(decls).body) \o LeavesDecls(Tail(decls))

\* the productions, by the name parser.rs gives them
Productions ==
    <<"let_scope", "conditional", "lambda", "list", "tuple", "set", "record",
      "grouped_application", "val_binding">>

\* the Gaze on the tokens parse was handed, with k of them taken
At(k) == [content |-> source, offset |-> k]

\* called at offset k the parser took tokens and did not match
TookAndFailed(parser, k) ==
    /\ apply_parser(parser, At(k)).st = "None"
    /\ apply_parser(parser, At(k)).gaze.offset > k

\* what the first of the alternatives that matches at offset k answers
\* there, each of them called at offset k
RECURSIVE FirstAt(_, _)
FirstAt(alternatives, k) ==
    IF alternatives = << >> THEN PNone(At(k))
    ELSE LET answer == apply_parser(Head(alternatives), At(k))
         IN  IF answer.st # "None" THEN answer ELSE FirstAt(Tail(alternatives), k)

\* a keyword of the conditional that is not among the tokens after offset k
MissingAfter(k) ==
    \E keyword \in {"Then", "Else", "End"} :
        \A j \in (k + 1)..Len(source) : source[j].tag # keyword

    /\ result.kind = "Ok"
    /\ script.tag = "Let"
    /\ script.body = GroupingE(<<NameE(Nx)>>)

\* the lambdas of the parameters around the body, the first parameter outermost
RECURSIVE NestedLambdas(_, _)
NestedLambdas(params, body) ==
    IF params = << >> THEN body
    ELSE LambdaE(Head(params), None, None, NestedLambdas(Tail(params), body))

ParamLists == {<<Nx>>, <<Nx, Ny>>, <<Nx, Ny, Nz>>}

\* the parameters are nested in their order around the element of the body
C24_Nesting ==
    \A params \in ParamLists :
        (ParsedTokens /\ source = LambdaOf(params))
        => /\ result.kind = "Ok"
           /\ script = GroupingE(<<NestedLambdas(params, parse(<<NameT(Nx)>>).val)>>)

\* C24: a lambda with parameters p1 ... pn parses to n nested lambdas of one
\* parameter, p1 outermost and pn innermost around the body, and the lambda
\* written with two parameters parses to the element of the lambda written
\* as a lambda that answers a lambda.
C24_LambdaDesugaring ==
    /\ C24_Nesting
    /\ (ParsedTokens /\ source = SampleLambda2)
       => script = parse(SampleLambdaNested).val

\* what the let production answers on the tokens parse was handed
LetAnswer == apply_parser("let_scope", from_vec(source))

\* the declaration val name = n as the parser gives it
ValDecl(name, n) == Decl(name, GroupingE(<<IntE(n)>>))

\* the declarations the tokens of a let spell out: those of the samples, none
\* in the enumerated tokens, which have no val
LetSamples == {SampleLet1, SampleLet2, SampleLetThenPipe, SampleLetNoEnd, SampleLetEnd}
SampleDecls ==
    IF source = SampleLet2 THEN <<ValDecl(Nx, 1), ValDecl(Ny, 2)>>
    ELSE IF source \in LetSamples THEN <<ValDecl(Nx, 1)>>
    ELSE << >>

\* where the token after the declarations is, and whether it is the in
AfterDecls == 2 + 4 * Len(SampleDecls)
HasIn == AfterDecls <= Len(source) /\ source[AfterDecls].tag = "In"

\* C25: on tokens that open with let and its declarations and go on without
\* the in, the let production answers Let(declarations, Nothing), and parse
\* of a let with nothing after its declarations answers that element; on
\* tokens with the in and without any end the let production does not match
\* and parse answers no element.
C25_TolerantLet ==
    (/\ ParsedTokens
     /\ source # << >>
     /\ Head(source).tag = "Let"
     /\ (Count(source, "Val") = 0 \/ source \in LetSamples))
    => /\ ~HasIn
          => /\ LetAnswer.st = "Some"
             /\ LetAnswer.v = LetE(SampleDecls, NothingE)
             /\ (Len(source) < AfterDecls
                 => result = [kind |-> "Ok", val |-> LetAnswer.v])
       /\ (HasIn /\ Count(source, "End") = 0)
          => /\ LetAnswer.st # "Some"
             /\ result.kind # "Ok"

\* let val x = 1 val y = 2 was parsed to the let of both declarations
C25_Witness ==
    /\ ParsedTokens
    /\ source = SampleLet2
    /\ script = LetE(<<ValDecl(Nx, 1), ValDecl(Ny, 2)>>, NothingE)

\* C30: a let without in takes the let and its declarations and nothing
\* more: the let production stops right after the last declaration, the
\* tolerant let between brackets, between parentheses or before >> z is
\* parsed with its neighbours, and no name, literal or opening keyword of
\* tokens with a let and no in is missing from the element parse answers.
C30_TolerantLetKeepsNextToken ==
    /\ (/\ ParsedTokens
        /\ source # << >>
        /\ Head(source).tag = "Let"
        /\ (Count(source, "Val") = 0 \/ source \in LetSamples)
        /\ ~HasIn)
       => /\ LetAnswer.st = "Some"
          /\ LetAnswer.gaze.offset = AfterDecls - 1
    /\ (ParsedTokens /\ source = SampleLetInList)
       => result = [kind |-> "Ok",
                    val |-> GroupingE(<<ListE(<<LetE(<<ValDecl(Nx, 1)>>, NothingE)>>)>>)]
    /\ (ParsedTokens /\ source = SampleLetInParens)
       => result.kind = "Ok"
    /\ (ParsedTokens /\ Count(source, "Let") > 0 /\ Count(source, "In") = 0
        /\ result.kind = "Ok")
       => Leaves(script) = Kept(source)

-----------------------------------------------------------------------------
(* The host's calls on its Bindings (SpecBindings). *)

\* C26: whatever the host called, the Bindings have a scope, and no bind
\* and no bind_host_function aborted for want of one.
C26_ScopesNeverEmpty ==
    /\ Len(bindings.scopes) >= 1
    /\ ~(aborted /\ bind_aborts(bindings))

\* C27: bind_host_function on Bindings that have a scope completes for a
\* function of any number of parameters, none included, and
\* read_host_function then answers the function.
C27_BindHostFunctionCompletes ==
    (/\ ops # << >>
     /\ Last(ops).op = "bind_host_function"
     /\ runs = 0
     /\ Len(bindings.scopes) >= 1)
    => /\ ~aborted
       /\ read_host_function(bindings, Last(ops).function.name) = Some(Last(ops).function)

-----------------------------------------------------------------------------
(* Applications by name (SpecResults). *)

IsNamedCall ==
    /\ Ran
    /\ script.tag = "Let"
    /\ script.body = G2(NameE(Ng), script.body.elems[2])

\* the argument and the body of the lambda of the script
CallArgument == script.body.elems[2]
CallBody == script.decls[1].body.elems[1].body

\* what the argument evaluates to, and the body with x bound to it
ArgumentValue == eval(express(CallArgument).val, Start)
BodyValue ==
    eval(express(CallBody).val, bind(ArgumentValue.env, Nx, ArgumentValue.val))

\* C28: when the function a name is bound to is applied and its body
\* evaluates to v, the application answers v, and the expression of v
\* evaluates to v again.
C28_ResultUnchanged ==
    (IsNamedCall /\ ArgumentValue.kind = "Ok" /\ BodyValue.kind = "Ok")
    => /\ result = Outcome(BodyValue)
       /\ value_to_expression(BodyValue.val).ok
       /\ Outcome(eval(value_to_expression(BodyValue.val).e, Start)) = Outcome(BodyValue)

IsHelloCall ==
    /\ Ran
    /\ script.tag = "Grouping"
    /\ script.elems[1] \in {NameE(HelloTo), NameE(HelloBoth)}

\* C29: a host function of one or more parameters that answers a HostValue,
\* applied by name to its arguments, answers Ok with the HostValue and does
\* not abort.
C29_HostValueReturned ==
    IsHelloCall
    => /\ result = [kind |-> "Ok", val |-> HostValueV(HelloText)]
       /\ ~aborted
=============================================================================
